---- MODULE Spec2Model ----
(***************************************************************************)
(* Entity change tracking and persistence of simple-database               *)
(* (src/src/classes/Model.ts, with Column of src/unnamed/part_002 and      *)
(* ManyToOneRelation of src/unnamed/part_007).                              *)
(*                                                                         *)
(* JavaScript values are written as strings: "undefined", "null", the      *)
(* numbers "0", "1", ..., the strings "''" and "'a'", the booleans         *)
(* "true" and "false".  A property that was never assigned (or was         *)
(* deleted) reads "undefined".  Date and json columns are not modelled.    *)
(***************************************************************************)
EXTENDS Integers, Sequences, FiniteSets, TLC

\* ---- bounds of the model ------------------------------------------------
NumInst == 2
MaxOps == 4
MaxInsertId == 2

Insts == 1..NumInst

\* Instance 1 is the instance the calls are made on; the other instances are
\* the targets of its relation: they are constructed, saved and deleted.
IsSubject(i) == i = 1

\* ---- values -------------------------------------------------------------
Undefined == "undefined"
Null == "null"
Throw == "throw"

IntVals == {"0", "1"}
StrVals == {"''", "'a'"}
BoolVals == {"true", "false"}
NumberVals == IntVals \cup {ToString(n) : n \in 1..MaxInsertId}

\* JavaScript truthiness of a value, as used by `!id`
Falsy(v) == v \in {Undefined, Null, "0", "''", "false"}

\* ---- schema: entity types, columns, relations ---------------------------
ColNames == {"id", "name", "isActive", "parentId", "updatedAt"}

Col(name, type, nullable, primary, skipUpdate, beforeSave) ==
    [name |-> name, type |-> type, nullable |-> nullable, primary |-> primary,
     skipUpdate |-> skipUpdate, beforeSave |-> beforeSave]

Types == {"TestModel", "Animal", "Tag", "Stamped", "Touched"}

\* static columns: the declared columns of an entity type, in declaration order
Columns(T) ==
    CASE T = "TestModel" ->
            << Col("id", "integer", FALSE, TRUE, FALSE, FALSE),
               Col("parentId", "integer", TRUE, FALSE, FALSE, FALSE) >>
      [] T = "Animal" ->
            << Col("id", "string", FALSE, TRUE, FALSE, FALSE),
               Col("name", "string", FALSE, FALSE, FALSE, FALSE) >>
      [] T = "Tag" ->
            << Col("id", "string", FALSE, TRUE, FALSE, FALSE) >>
      [] T = "Stamped" ->
            << Col("id", "integer", FALSE, TRUE, FALSE, FALSE),
               Col("isActive", "boolean", FALSE, FALSE, FALSE, FALSE),
               Col("updatedAt", "integer", FALSE, FALSE, TRUE, TRUE) >>
      [] T = "Touched" ->
            << Col("id", "integer", FALSE, TRUE, FALSE, FALSE),
               Col("updatedAt", "integer", FALSE, FALSE, FALSE, TRUE) >>

ColumnSet(T) == {Columns(T)[k] : k \in 1..Len(Columns(T))}
ColumnNames(T) == {c.name : c \in ColumnSet(T)}
ColumnByName(T, n) == CHOOSE c \in ColumnSet(T) : c.name = n

\* static primary: the column declared primary
Primary(T) == CHOOSE c \in ColumnSet(T) : c.primary

\* static relations: the single-valued relations registered through a
\* foreign-key column (TestModel.parent, foreign key parentId)
Relations(T) ==
    IF T = "TestModel" THEN {[modelKey |-> "parent", foreignKey |-> "parentId"]}
    ELSE {}

\* the test `column.primary && column.type === 'integer' && primary.name === 'id'`
IsAutoIncrement(T, c) ==
    c.primary /\ c.type = "integer" /\ Primary(T).name = "id"

AutoIncrementPrimary(T) ==
    Primary(T).type = "integer" /\ Primary(T).name = "id"

\* property initialisers of the entity classes (id = null, parentId = null)
Defaults(T) ==
    [n \in ColNames |->
        IF T \in {"TestModel", "Stamped", "Touched"} /\ n = "id" THEN Null
        ELSE IF T = "TestModel" /\ n = "parentId" THEN Null
        ELSE Undefined]

\* the schema of every entity type, tabulated
ColumnTable ==
    [T \in Types |->
        [n \in ColNames |->
            IF n \in ColumnNames(T) THEN ColumnByName(T, n)
            ELSE Col(n, "none", FALSE, FALSE, FALSE, FALSE)]]
ColumnsTable == [T \in Types |-> Columns(T)]
DeclaredTable == [T \in Types |-> ColumnNames(T)]
PrimaryTable == [T \in Types |-> Primary(T)]

\* ---- Column: conversions between memory and storage ---------------------
ColumnTo(c, data) ==
    IF data = Null THEN (IF c.nullable THEN Null ELSE Throw)
    ELSE CASE c.type = "integer" -> IF data \in NumberVals THEN data ELSE Throw
           [] c.type = "string" -> IF data \in StrVals THEN data ELSE Throw
           [] c.type = "boolean" ->
                IF data \notin BoolVals THEN Throw
                ELSE IF data = "true" THEN "1" ELSE "0"
           [] OTHER -> Throw

ColumnFrom(c, data) ==
    IF data = Null THEN (IF c.nullable THEN Null ELSE Throw)
    ELSE CASE c.type = "integer" -> IF data \in NumberVals THEN data ELSE Throw
           [] c.type = "string" -> data
           [] c.type = "boolean" ->
                IF data = "1" THEN "true"
                ELSE IF data = "0" THEN "false" ELSE Throw
           [] OTHER -> Throw

ColumnIsChanged(old, now) == now # old

\* values application code assigns to a column (well typed)
AssignValues(c) ==
    (CASE c.type = "integer" -> IntVals
       [] c.type = "string" -> StrVals
       [] c.type = "boolean" -> BoolVals)
    \cup (IF c.nullable THEN {Null} ELSE {})

\* values storage returns for a column of a row ("undefined": not selected)
RowValues(c) ==
    (CASE c.type = "integer" -> IntVals
       [] c.type = "string" -> StrVals
       [] c.type = "boolean" -> {"0", "1"})
    \cup {Null, Undefined}

Rows(T) ==
    {[n \in ColNames |-> IF n \in ColumnNames(T) THEN r[n] ELSE Undefined] :
        r \in {q \in [ColumnNames(T) -> IntVals \cup StrVals \cup {Null, Undefined}] :
                    \A n \in ColumnNames(T) : q[n] \in RowValues(ColumnByName(T, n))}}
RowTable == [T \in Types |-> Rows(T)]

\* ---- state --------------------------------------------------------------
VARIABLES
    cls,                  \* the entity type of the instances (this.static)
    alive,                \* alive[i]: instance i has been constructed
    props,                \* props[i][column]: the column properties this[column.name]
    parent,               \* parent[i]: this[relation.modelKey]; -1 undefined, 0 null, j a reference to instance j
    existsInDatabase,     \* existsInDatabase[i]
    savedProperties,      \* savedProperties[i][column]: the snapshot ("undefined": no entry)
    forceSaveProperties,  \* forceSaveProperties[i]: set of column names
    snapshotOf,           \* snapshotOf[i]: the Map object the field savedProperties of i refers to
    forceSetOf,           \* forceSetOf[i]: the Set object the field forceSaveProperties of i refers to

    nextInsertId,         \* storage: the next auto-increment id
        lastCall,             \* the most recent call and what it did
    emitted,              \* the notifications the most recent call sent, in order

    clean,                \* instances whose last save() returned true, with nothing but equal
                          \* re-assignments made to them, and no delete() of their relation target, since
    deleted,              \* instances that went through delete() and were not inserted again
        nops                  \* number of calls made

\* filters (Where objects) and the buildWhereOperator of Model
VARIABLES
    tree,                 \* the Where object application code is holding
    whereCall,            \* the most recent call that made or compiled a filter
    built,                \* the most recent buildWhereOperator call and what it returned
    wsteps                \* number of calls made on filters

\* query objects (SelectQuery) and their execution
VARIABLES
    queries,              \* queries[q]: the fields of query object q
    joinLists,            \* joinLists[a]: the contents of the array object a (a `_join`)
    hookLists,            \* hookLists[a]: the contents of the array object a (a `postFetch`)
    lastBuild,            \* the most recent builder call and what it returned
    fetching,             \* the fetch() in progress
    statements,           \* the statements that reached storage, in order
    hookLog               \* the post-fetch hook calls and completions, in order

\* relations: the loaders of the direct relations and the link table of a
\* many-to-many relation
VARIABLES
    loading,              \* the most recent fetch or load of a relation chain and what it did
    links,                \* storage: the link-table rows of the owner, as target ids in storage order
    related,              \* the owner: its primary key and its relation field this[relation.modelKey]
    linkCall,             \* the most recent call on the many-to-many relation and what it did
    lsteps                \* number of calls made on the many-to-many relation

\* the event bus (ModelEventBus)
VARIABLES
    listeners,            \* the Map `listeners`: its entries [owner, list] in insertion order
    registrations,        \* number of addListener calls made so far
    busCall,              \* the most recent sendEvent and what it did
    bsteps                \* number of calls made on the event bus

\* a listener of the model event bus that keeps a notification
VARIABLES
    held,                 \* the 'updated' notification the listener kept
    oldModel              \* the most recent call of its getOldModel() and what it returned

\* save() calls in progress
VARIABLES
    saves                 \* the save() calls that issued a statement, in the order of their statements

\* Database: the connection pool and the calls on it
VARIABLES
    pool,                 \* pool[c]: connection c is "free", with a "call", or with the "caller"
    dbCalls               \* the calls of select, insert, update, delete and statement, in order

\* Migration.runAll: the folders, the migrations table and the run
VARIABLES
    disk,                 \* disk[p]: the names of the files in folder p
    executed,             \* the `file` column of the rows of the migrations table, in order
    run,                  \* runAll's position: pc, the sorted list, the entry it is at, what it returned
    ran,                  \* the migrations whose up() the present run has called, in order
    nruns                 \* the number of runAll calls so far

modelVars == << cls, alive, props, parent, existsInDatabase, savedProperties,
                forceSaveProperties, snapshotOf, forceSetOf, nextInsertId, lastCall,
                emitted, clean, deleted, nops >>
whereVars == << tree, whereCall, built, wsteps >>
builderVars == << queries, joinLists, hookLists, lastBuild, fetching, statements, hookLog >>
relationVars == << loading, links, related, linkCall, lsteps >>
busVars == << listeners, registrations, busCall, bsteps >>
eventVars == << held, oldModel >>
overlapVars == << saves >>
poolVars == << pool, dbCalls >>
migrationVars == << disk, executed, run, ran, nruns >>
serviceVars == << busVars, eventVars, overlapVars, poolVars, migrationVars >>
queryVars == << whereVars, builderVars, relationVars, serviceVars >>

vars == << modelVars, queryVars >>

\* what the actions of one part leave alone
otherVars == << whereVars, builderVars, relationVars >>
notBusVars == << modelVars, otherVars, eventVars, overlapVars, poolVars, migrationVars >>
notEventVars == << otherVars, busVars, overlapVars, poolVars, migrationVars >>
notOverlapVars == << otherVars, busVars, eventVars, poolVars, migrationVars >>
notPoolVars == << modelVars, otherVars, busVars, eventVars, overlapVars, migrationVars >>
notMigrationVars == << modelVars, otherVars, busVars, eventVars, overlapVars, poolVars >>


RelUndefined == -1
RelNull == 0

NoFields == [n \in ColNames |-> Undefined]

Declared == DeclaredTable[cls]
Column(n) == ColumnTable[cls][n]
PrimaryName == PrimaryTable[cls].name
ForeignKey == "parentId"
HasRelation == Relations(cls) # {}

\* what a call did: the instance and its primary key and state when the call
\* was made, the outcome, the statement issued and storage's response to it
Call(op, i, id, result, error, column, stmt, fields, resp, event, wasPersisted, wasClean) ==
    [op |-> op, inst |-> i, id |-> id, result |-> result, error |-> error,
     column |-> column, stmt |-> stmt, fields |-> fields, resp |-> resp,
     event |-> event, wasPersisted |-> wasPersisted, wasClean |-> wasClean,
     wasDeleted |-> i \in deleted]

\* a call that issues no statement and emits no event
Plain(op, i, result, error) ==
    Call(op, i, props[i][PrimaryName], result, error, "none", "none", NoFields,
         "none", "none", existsInDatabase[i], i \in clean)

\* ---- filters and queries: values and empty state ----------------------------
\* A JavaScript value handed to the query builder: a string, null, an array of
\* strings and nulls, a column selector object {column, namespace}, or
\* undefined (an omitted argument).  items holds the string, the elements, or
\* the column and the namespace ("": none).
Scalar(s) == [kind |-> "scalar", items |-> << s >>]
NullValue == [kind |-> "null", items |-> << >>]
UndefinedValue == [kind |-> "undefined", items |-> << >>]
List(items) == [kind |-> "list", items |-> items]
Selector(column, namespace) == [kind |-> "column", items |-> << column, namespace >>]

\* a null element of an array
NullElement == "<null>"

\* A Where object: WhereEqual (column, sign, value), WhereAnd and WhereOr
\* (a, b) and WhereNot (a); kids holds a and b.  NoWhere is `null`.
Node(kind, column, sign, value, kids) ==
    [kind |-> kind, column |-> column, sign |-> sign, value |-> value, kids |-> kids]
NoWhere == Node("none", UndefinedValue, "", UndefinedValue, << >>)

NoWhereCall == [op |-> "none", args |-> << >>, error |-> "none", before |-> NoWhere]
NoBuilt ==
    [key |-> "", sign |-> "", value |-> UndefinedValue, mode |-> "", sql |-> "",
     params |-> << >>, error |-> "none"]

\* no filter has been made
WhereIdle ==
    /\ tree = NoWhere
    /\ whereCall = NoWhereCall
    /\ built = NoBuilt
    /\ wsteps = 0

\* new SelectQuery(model): no filter, an empty `_join`, an empty `postFetch`,
\* no limit
NoLimit == [set |-> FALSE, limit |-> 0, offset |-> 0]
NewQuery(join, postFetch) ==
    [where |-> NoWhere, join |-> join, postFetch |-> postFetch, limit |-> NoLimit]

NoBuild == [op |-> "none", error |-> "none"]
NoFetch ==
    [pc |-> "idle", query |-> 0, rows |-> << >>, models |-> << >>, next |-> 0,
     error |-> "none"]

\* application code holds one query, new SelectQuery(Dog), and nothing runs
QueryIdle ==
    /\ queries = << NewQuery(1, 1) >>
    /\ joinLists = << << >> >>
    /\ hookLists = << << >> >>
    /\ lastBuild = NoBuild
    /\ fetching = NoFetch
    /\ statements = << >>
    /\ hookLog = << >>

\* an Error a loader throws: the kind, and for "noMatch" the tables and the key
\* its message names
NoError == [kind |-> "none", target |-> "", owner |-> "", key |-> ""]

\* no fetch or load of a relation chain was made
NoLoad ==
    [mode |-> "none", chain |-> << >>, tables |-> << >>, strict |-> TRUE,
     owners |-> << >>, stmts |-> << >>, calls |-> << >>, error |-> NoError,
     models |-> << >>]

\* the owner of the many-to-many relation as `new TestModel()` makes it: no
\* primary key, and the relation field undefined, which is: not loaded
NotLoaded == [id |-> NullElement, loaded |-> FALSE, list |-> << >>]
NoLinkCall ==
    [op |-> "none", pc |-> "idle", targets |-> << >>, stmts |-> 0, affected |-> 0,
     error |-> "none", rows |-> << >>, was |-> NotLoaded, stored |-> << >>,
     others |-> FALSE]

\* no relation was loaded, the link table holds no row of the owner
RelationIdle ==
    /\ loading = NoLoad
    /\ links = << >>
    /\ related = NotLoaded
    /\ linkCall = NoLinkCall
    /\ lsteps = 0

\* mysql.createPool({ connectionLimit }): the number of connections of the pool
ConnectionLimit == 2

\* new ModelEventBus(): `listeners = new Map()`, and nothing was sent
NoSend ==
    [pc |-> "idle", was |-> << >>, invoked |-> << >>, pending |-> {}, completed |-> {},
     error |-> "none"]
BusIdle ==
    /\ listeners = << >>
    /\ registrations = 0
    /\ busCall = NoSend
    /\ bsteps = 0

\* the listener holds no notification
NoEvent ==
    [type |-> "none", model |-> 0, changedFields |-> NoFields,
     originalFields |-> NoFields, exists |-> FALSE, snapshot |-> NoFields]
NoOldModel ==
    [result |-> "none", error |-> "none", props |-> NoFields, exists |-> FALSE,
     snapshot |-> NoFields, live |-> NoFields]
EventIdle ==
    /\ held = NoEvent
    /\ oldModel = NoOldModel

ServiceIdle ==
    /\ BusIdle
    /\ EventIdle
    /\ saves = << >>
    /\ pool = [c \in 1..ConnectionLimit |-> "free"]
    /\ dbCalls = << >>
    /\ disk = [p \in {<< "a" >>, << "b" >>} |-> {}]
    /\ executed = << >>
    /\ run = [pc |-> "idle", migrations |-> << >>, at |-> 0, returned |-> "none"]
    /\ ran = << >>
    /\ nruns = 0

Init ==
    /\ WhereIdle
    /\ QueryIdle
    /\ RelationIdle
    /\ ServiceIdle
    /\ cls \in Types
    /\ alive = [i \in Insts |-> FALSE]
    /\ props = [i \in Insts |-> NoFields]
    /\ parent = [i \in Insts |-> RelUndefined]
    /\ existsInDatabase = [i \in Insts |-> FALSE]
    /\ savedProperties = [i \in Insts |-> NoFields]
        /\ forceSaveProperties = [i \in Insts |-> {}]
    /\ snapshotOf = [i \in Insts |-> i]
    /\ forceSetOf = [i \in Insts |-> i]

    /\ nextInsertId = 1
    /\ clean = {}
    /\ deleted = {}
    /\ lastCall = Call("none", 0, Undefined, "none", "none", "none", "none", NoFields,
                       "none", "none", FALSE, FALSE)
        /\ emitted = << >>
    /\ nops = 0


\* ---- the snapshot and the force-save set are objects -------------------------
\* Every instance is constructed with a Map and a Set of its own (the object
\* made by instance i is object i); savedProperties[i] and
\* forceSaveProperties[i] are the contents of the objects the fields of i
\* refer to, so a write through one instance shows in every instance whose
\* field refers to the same object.
WriteSnapshot(i, snapshot) ==
    [k \in Insts |->
        IF snapshotOf[k] = snapshotOf[i] THEN snapshot ELSE savedProperties[k]]

WriteForceSet(i, force) ==
    [k \in Insts |->
        IF forceSetOf[k] = forceSetOf[i] THEN force ELSE forceSaveProperties[k]]

\* ---- relation predicates (ManyToOneRelation) -----------------------------
IsLoaded(i) == parent[i] # RelUndefined
IsSet(i) == parent[i] # RelUndefined /\ parent[i] # RelNull

\* getPrimaryKey()
GetPrimaryKey(i) == props[i][PrimaryName]

\* ---- construction ---------------------------------------------------------
\* new Model(): property initialisers, empty snapshot and force-save set
New(i) ==
    /\ ~alive[i]
    /\ IsSubject(i) \/ HasRelation
    /\ nops < MaxOps
    /\ alive' = [alive EXCEPT ![i] = TRUE]
    /\ props' = [props EXCEPT ![i] = Defaults(cls)]
    /\ lastCall' = Plain("new", i, "ok", "none")
    /\ nops' = nops + 1
    /\ emitted' = << >>
    /\ UNCHANGED queryVars
    /\ UNCHANGED << cls, snapshotOf, forceSetOf, parent, existsInDatabase, savedProperties,
                    forceSaveProperties, nextInsertId, clean, deleted >>

\* the properties fromRow assigns: column.from(row[column.name]) or undefined
FromRowProps(row) ==
    [n \in ColNames |->
        IF n \in Declared /\ row[n] # Undefined
        THEN ColumnFrom(Column(n), row[n])
        ELSE Undefined]

\* markSaved() without fields: the snapshot takes column.to of every defined property
MarkSavedSnapshot(old, p) ==
    [n \in ColNames |->
        IF n \in Declared /\ p[n] # Undefined
        THEN ColumnTo(Column(n), p[n])
        ELSE old[n]]

\* the rows the relation targets are fetched from: the primary key, and null
\* in the other columns
TargetRow(id) ==
    [n \in ColNames |->
        IF n = PrimaryName THEN id ELSE IF n \in Declared THEN Null ELSE Undefined]

\* Model.fromRow(row)
FromRow(i, row) ==
    /\ ~alive[i]
    /\ IsSubject(i) \/ (HasRelation /\ row = TargetRow(row[PrimaryName]))
    /\ nops < MaxOps
    /\ nops' = nops + 1
    /\ IF row[PrimaryName] \in {Null, Undefined}
       THEN /\ lastCall' = Plain("fromRow", i, "undefined", "none")
            /\ UNCHANGED << alive, props, existsInDatabase, savedProperties >>
       ELSE IF \E n \in Declared : FromRowProps(row)[n] = Throw
       THEN /\ lastCall' = Plain("fromRow", i, "throw", "from")
            /\ UNCHANGED << alive, props, existsInDatabase, savedProperties >>
       ELSE /\ alive' = [alive EXCEPT ![i] = TRUE]
            /\ props' = [props EXCEPT ![i] = FromRowProps(row)]
            /\ existsInDatabase' = [existsInDatabase EXCEPT ![i] = TRUE]
            /\ savedProperties' = WriteSnapshot(i, MarkSavedSnapshot(NoFields, FromRowProps(row)))
            /\ lastCall' = Plain("fromRow", i, "ok", "none")
    /\ emitted' = << >>
    /\ UNCHANGED queryVars
    /\ UNCHANGED << cls, snapshotOf, forceSetOf, parent, forceSaveProperties, nextInsertId, clean, deleted >>

\* ---- mutators -------------------------------------------------------------
\* application code assigning a column property: m.column = v
Assign(i, n, v) ==
    /\ alive[i]
    /\ IsSubject(i)
    /\ nops < MaxOps
    /\ n \in Declared
    /\ v \in AssignValues(Column(n))
    /\ props' = [props EXCEPT ![i][n] = v]
    /\ clean' = IF v = props[i][n] THEN clean ELSE clean \ {i}
    /\ lastCall' = Plain("assign", i, "ok", "none")
    /\ nops' = nops + 1
    /\ emitted' = << >>
    /\ UNCHANGED queryVars
    /\ UNCHANGED << cls, snapshotOf, forceSetOf, alive, parent, existsInDatabase, savedProperties,
                    forceSaveProperties, nextInsertId, deleted >>

\* application code assigning the relation property directly: (m as any).parent = other
AssignRelation(i, j) ==
    /\ alive[i]
    /\ IsSubject(i)
    /\ j # RelNull => alive[j]
    /\ HasRelation
    /\ nops < MaxOps
    /\ parent' = [parent EXCEPT ![i] = j]
    /\ clean' = clean \ {i}
    /\ lastCall' = Plain("assignRelation", i, "ok", "none")
    /\ nops' = nops + 1
    /\ emitted' = << >>
    /\ UNCHANGED queryVars
    /\ UNCHANGED << cls, snapshotOf, forceSetOf, alive, props, existsInDatabase, savedProperties,
                    forceSaveProperties, nextInsertId, deleted >>

\* setOptionalRelation(relation, value): value is null (0) or instance j
SetOptionalRelationTo(op, i, j) ==
    /\ alive[i]
    /\ IsSubject(i)
    /\ HasRelation
    /\ nops < MaxOps
    /\ j # RelNull => alive[j]
    /\ nops' = nops + 1
    /\ IF j # RelNull /\ ~existsInDatabase[j]
       THEN /\ lastCall' = Plain(op, i, "throw", "relationNotSaved")
            /\ UNCHANGED << parent, props, clean >>
       ELSE /\ parent' = [parent EXCEPT ![i] = j]
            /\ props' = [props EXCEPT ![i][ForeignKey] =
                            IF j # RelNull THEN GetPrimaryKey(j) ELSE Null]
            /\ clean' = clean \ {i}
            /\ lastCall' = Plain(op, i, "ok", "none")
    /\ emitted' = << >>
    /\ UNCHANGED queryVars
    /\ UNCHANGED << cls, snapshotOf, forceSetOf, alive, existsInDatabase, savedProperties,
                    forceSaveProperties, nextInsertId, deleted >>

SetOptionalRelation(i, j) == SetOptionalRelationTo("setOptionalRelation", i, j)

\* unsetRelation(relation) is setOptionalRelation(relation, null)
UnsetRelation(i) == SetOptionalRelationTo("unsetRelation", i, RelNull)

\* setRelation(relation, value)
SetRelation(i, j) ==
    /\ alive[i]
    /\ IsSubject(i)
    /\ alive[j]
    /\ HasRelation
    /\ nops < MaxOps
    /\ nops' = nops + 1
    /\ IF ~existsInDatabase[j]
       THEN /\ lastCall' = Plain("setRelation", i, "throw", "relationNotSaved")
            /\ UNCHANGED << parent, props, clean >>
       ELSE /\ parent' = [parent EXCEPT ![i] = j]
            /\ props' = [props EXCEPT ![i][ForeignKey] = GetPrimaryKey(j)]
            /\ clean' = clean \ {i}
            /\ lastCall' = Plain("setRelation", i, "ok", "none")
    /\ emitted' = << >>
    /\ UNCHANGED queryVars
    /\ UNCHANGED << cls, snapshotOf, forceSetOf, alive, existsInDatabase, savedProperties,
                    forceSaveProperties, nextInsertId, deleted >>

\* unloadRelation(relation)
UnloadRelation(i) ==
    /\ alive[i]
    /\ IsSubject(i)
    /\ HasRelation
    /\ nops < MaxOps
    /\ parent' = [parent EXCEPT ![i] = RelUndefined]
    /\ clean' = clean \ {i}
    /\ lastCall' = Plain("unloadRelation", i, "ok", "none")
    /\ nops' = nops + 1
    /\ emitted' = << >>
    /\ UNCHANGED queryVars
    /\ UNCHANGED << cls, snapshotOf, forceSetOf, alive, props, existsInDatabase, savedProperties,
                    forceSaveProperties, nextInsertId, deleted >>

\* forceSaveProperty(key)
ForceSaveProperty(i, k) ==
    /\ alive[i]
    /\ IsSubject(i)
    /\ nops < MaxOps
    /\ k \in Declared
    /\ forceSaveProperties' = WriteForceSet(i, forceSaveProperties[i] \cup {k})
    /\ clean' = clean \ {i}
    /\ lastCall' = [Plain("forceSaveProperty", i, "ok", "none") EXCEPT !.column = k]
    /\ nops' = nops + 1
    /\ emitted' = << >>
    /\ UNCHANGED queryVars
    /\ UNCHANGED << cls, snapshotOf, forceSetOf, alive, props, parent, existsInDatabase, savedProperties,
                    nextInsertId, deleted >>

\* markAllChanged()
MarkAllChanged(i) ==
    /\ alive[i]
    /\ IsSubject(i)
    /\ nops < MaxOps
    /\ savedProperties' = WriteSnapshot(i, NoFields)
    /\ clean' = clean \ {i}
    /\ lastCall' = Plain("markAllChanged", i, "ok", "none")
    /\ nops' = nops + 1
    /\ emitted' = << >>
    /\ UNCHANGED queryVars
    /\ UNCHANGED << cls, snapshotOf, forceSetOf, alive, props, parent, existsInDatabase,
                    forceSaveProperties, nextInsertId, deleted >>

\* what eraseProperty(key) does to the properties and to the snapshot
Erased(f, k) == [f EXCEPT ![k] = Undefined]

\* eraseProperty(key)
EraseProperty(i, k) ==
    /\ alive[i]
    /\ IsSubject(i)
    /\ nops < MaxOps
    /\ k \in ColNames
    /\ nops' = nops + 1
    /\ IF k \notin Declared
       THEN /\ lastCall' = Plain("eraseProperty", i, "throw", "unknownProperty")
            /\ UNCHANGED << props, savedProperties, clean >>
       ELSE /\ props' = [props EXCEPT ![i] = Erased(@, k)]
            /\ savedProperties' = WriteSnapshot(i, Erased(savedProperties[i], k))
            /\ clean' = clean \ {i}
            /\ lastCall' = Plain("eraseProperty", i, "ok", "none")
    /\ emitted' = << >>
    /\ UNCHANGED queryVars
    /\ UNCHANGED << cls, snapshotOf, forceSetOf, alive, parent, existsInDatabase, forceSaveProperties,
                    nextInsertId, deleted >>

\* ---- save ------------------------------------------------------------------
\* SaveRelationError without the check of a relation loaded as null
SaveRelationError_IgnoresNullRelation(i) ==
    IF ~HasRelation \/ ~IsSet(i) THEN "none"
    ELSE IF ~existsInDatabase[parent[i]] THEN "relationNotSaved"
    ELSE IF props[i][ForeignKey] # GetPrimaryKey(parent[i]) THEN "foreignKeyModified"
    ELSE "none"

\* SaveRelationError without the check that the target is in storage
SaveRelationError_IgnoresTarget(i) ==
    IF ~HasRelation \/ ~IsLoaded(i) THEN "none"
    ELSE IF IsSet(i)
         THEN IF props[i][ForeignKey] # GetPrimaryKey(parent[i])
              THEN "foreignKeyModified"
              ELSE "none"
         ELSE IF props[i][ForeignKey] # Null THEN "foreignKeySet" ELSE "none"

\* save(), step 1: the relation checks; the error raised, or "none"
SaveRelationError(i) ==
    IF ~HasRelation \/ ~IsLoaded(i) THEN "none"
    ELSE IF IsSet(i)
         THEN IF ~existsInDatabase[parent[i]] THEN "relationNotSaved"
              ELSE IF props[i][ForeignKey] # GetPrimaryKey(parent[i])
                   THEN "foreignKeyModified"
                   ELSE "none"
         ELSE IF props[i][ForeignKey] # Null THEN "foreignKeySet" ELSE "none"

\* save(), step 2: the primary-key checks (`!id` is JavaScript falsiness)
SavePrimaryKeyError(i) ==
    IF Falsy(GetPrimaryKey(i))
    THEN IF existsInDatabase[i] THEN "noIdSelected" ELSE "none"
    ELSE IF ~existsInDatabase[i] /\ AutoIncrementPrimary(cls)
         THEN "primaryKeySet"
         ELSE "none"

\* beforeSave(): every column with a beforeSave hook gets the hook's result;
\* the hooks of the modelled entity types are `() => now`
BeforeSave(p, now) ==
    [n \in ColNames |->
        IF n \in Declared /\ Column(n).beforeSave THEN now ELSE p[n]]

\* some column of the entity type has a beforeSave hook
HasBeforeSave == \E n \in Declared : Column(n).beforeSave

\* ColumnError without the check that a new instance has every column
ColumnError_IgnoresAbsent(i, p, c) ==
    IF IsAutoIncrement(cls, c) THEN "none"
    ELSE IF p[c.name] # Undefined /\ ColumnTo(c, p[c.name]) = Throw THEN "to"
    ELSE "none"

\* getChangedDatabaseProperties(): what the loop does at column c
ColumnError(i, p, c) ==
    IF IsAutoIncrement(cls, c) THEN "none"
    ELSE IF ~existsInDatabase[i] /\ p[c.name] = Undefined THEN "undefinedProperty"
    ELSE IF p[c.name] # Undefined /\ ColumnTo(c, p[c.name]) = Throw THEN "to"
    ELSE "none"

\* the column is put in the write set
Included(i, p, c) ==
    /\ ~IsAutoIncrement(cls, c)
    /\ p[c.name] # Undefined
    /\ \/ c.name \in forceSaveProperties[i]
       \/ savedProperties[i][c.name] = Undefined
       \/ ColumnIsChanged(savedProperties[i][c.name], ColumnTo(c, p[c.name]))

\* CountsAsSkipUpdate that counts a force-saved column too
CountsAsSkipUpdate_IgnoresForce(i, c) == c.skipUpdate

\* the column counts for skipUpdate
CountsAsSkipUpdate(i, c) == c.skipUpdate /\ c.name \notin forceSaveProperties[i]

GetChangedDatabaseProperties(i, p) ==
    LET cols == ColumnsTable[cls]
        bad == {k \in 1..Len(cols) : ColumnError(i, p, cols[k]) # "none"}
        first == CHOOSE k \in bad : \A m \in bad : k <= m
    IN  IF bad # {}
        THEN [error |-> ColumnError(i, p, cols[first]), column |-> cols[first].name,
              fields |-> NoFields, skipUpdate |-> 0]
        ELSE [error |-> "none", column |-> "none",
              fields |-> [n \in ColNames |->
                            IF n \in Declared /\ Included(i, p, Column(n))
                            THEN ColumnTo(Column(n), p[n])
                            ELSE Undefined],
              skipUpdate |-> Cardinality({n \in Declared :
                                Included(i, p, Column(n)) /\ CountsAsSkipUpdate(i, Column(n))})]

\* Object.keys(fields).length
FieldCount(fields) == Cardinality({n \in ColNames : fields[n] # Undefined})

\* save() returns false without a statement
IsNoOp(persisted, fields, skipUpdate) ==
    \/ FieldCount(fields) = 0
    \/ persisted /\ skipUpdate = FieldCount(fields)

\* markSaved(fields): the snapshot takes every field that was written
MarkSavedFields(old, fields) ==
    [n \in ColNames |->
        IF n \in Declared /\ fields[n] # Undefined THEN fields[n] ELSE old[n]]

\* markSaved(): the foreign key of a loaded relation follows the relation
SyncForeignKey(i, p) ==
    IF HasRelation /\ IsLoaded(i)
    THEN [p EXCEPT ![ForeignKey] =
            IF IsSet(i)
            THEN (IF parent[i] = i THEN p[PrimaryName] ELSE GetPrimaryKey(parent[i]))
            ELSE Null]
    ELSE p

\* markSaved(): forceSaveProperties.clear()
ForceAfterSave(force) == {}

\* the storage-assigned id written back after an INSERT
InsertId == ToString(nextInsertId)

\* UpdateAccepted that treats an UPDATE changing no row as a failure
UpdateAccepted_OnlyChangedRows(resp) == resp = "ok"

\* UpdateAccepted that goes on whatever storage answers
UpdateAccepted_Always(resp) == TRUE

\* save() does not raise on these responses to an UPDATE
UpdateAccepted(resp) == resp \in {"ok", "zero"}

\* a notification on the model event bus, with what a listener that looks at
\* event.model when it is called finds there: the existence flag and the snapshot
ModelEvent(type, i, changedFields, originalFields, exists, snapshot) ==
    [type |-> type, model |-> i, changedFields |-> changedFields,
     originalFields |-> originalFields, exists |-> exists, snapshot |-> snapshot]

\* SendEvent that delivers the notification twice
SendEvent_Twice(sent, event) == sent \o << event, event >>

\* modelEventBus.sendEvent(value): the notification goes out once
SendEvent(sent, event) == Append(sent, event)

\* save(): originalProperties, the entries of the snapshot before markSaved(fields)
OriginalProperties(i) == savedProperties[i]

\* save(): resp is storage's answer to the statement, now the value the
\* pre-save hooks return (of no effect, and fixed, for a type without hooks)
Save(i, resp, now) ==
    /\ alive[i]
    /\ nops < MaxOps
    /\ nops' = nops + 1
    /\ HasBeforeSave \/ now = "0"
    /\ LET relErr == SaveRelationError(i)
           pkErr == SavePrimaryKeyError(i)
           p1 == BeforeSave(props[i], now)
           ch == GetChangedDatabaseProperties(i, p1)
           was == existsInDatabase[i]
           auto == AutoIncrementPrimary(cls)
           Throws(e, col, stmt, fields, r) ==
               /\ lastCall' = Call("save", i, GetPrimaryKey(i), "throw", e, col, stmt,
                                   fields, r, "none", was, i \in clean)
               /\ emitted' = << >>
       IN
       IF relErr # "none" \/ pkErr # "none"
       THEN /\ Throws(IF relErr # "none" THEN relErr ELSE pkErr, "none", "none", NoFields, "none")
            /\ UNCHANGED << props, existsInDatabase, savedProperties,
                            forceSaveProperties, nextInsertId, clean, deleted >>
       ELSE IF ch.error # "none"
       THEN /\ Throws(ch.error, ch.column, "none", NoFields, "none")
            /\ props' = [props EXCEPT ![i] = p1]
            /\ UNCHANGED << existsInDatabase, savedProperties,
                            forceSaveProperties, nextInsertId, clean, deleted >>
       ELSE IF IsNoOp(was, ch.fields, ch.skipUpdate)
       THEN /\ lastCall' = Call("save", i, GetPrimaryKey(i), "false", "none", "none",
                                                                "none", ch.fields, "none", "none", was, i \in clean)
            /\ emitted' = << >>
            /\ props' = [props EXCEPT ![i] = p1]
            /\ UNCHANGED << existsInDatabase, savedProperties,
                            forceSaveProperties, nextInsertId, clean, deleted >>
       ELSE IF ~was
       THEN \* INSERT INTO table SET fields
            /\ resp \in {"ok", "error"}
            /\ auto => nextInsertId <= MaxInsertId
            /\ IF resp = "error"
               THEN /\ Throws("storage", "none", "INSERT", ch.fields, resp)
                    /\ props' = [props EXCEPT ![i] = p1]
                    /\ UNCHANGED << existsInDatabase, savedProperties,
                                    forceSaveProperties, nextInsertId, clean, deleted >>
               ELSE LET p2 == IF auto THEN [p1 EXCEPT ![PrimaryName] = InsertId] ELSE p1
                        f2 == IF auto THEN [ch.fields EXCEPT ![PrimaryName] = InsertId]
                              ELSE ch.fields
                    IN  /\ props' = [props EXCEPT ![i] = SyncForeignKey(i, p2)]
                        /\ existsInDatabase' = [existsInDatabase EXCEPT ![i] = TRUE]
                        /\ savedProperties' = WriteSnapshot(i, MarkSavedFields(savedProperties[i], f2))
                        /\ forceSaveProperties' = WriteForceSet(i, ForceAfterSave(forceSaveProperties[i]))
                        /\ nextInsertId' = IF auto THEN nextInsertId + 1 ELSE nextInsertId
                        /\ clean' = clean \cup {i}
                        /\ deleted' = deleted \ {i}
                                                /\ lastCall' = Call("save", i, GetPrimaryKey(i), "true", "none",
                                            "none", "INSERT", ch.fields, resp,
                                            "created", was, i \in clean)
                        /\ emitted' = SendEvent(<< >>,
                             ModelEvent("created", i, NoFields, NoFields, TRUE,
                                        MarkSavedFields(savedProperties[i], f2)))
       ELSE \* UPDATE table SET fields WHERE primary = id
            IF ~UpdateAccepted(resp)
            THEN /\ Throws("storage", "none", "UPDATE", ch.fields, resp)
                 /\ props' = [props EXCEPT ![i] = p1]
                 /\ UNCHANGED << existsInDatabase, savedProperties,
                                 forceSaveProperties, nextInsertId, clean, deleted >>
            ELSE /\ props' = [props EXCEPT ![i] = SyncForeignKey(i, p1)]
                 /\ existsInDatabase' = [existsInDatabase EXCEPT ![i] = TRUE]
                 /\ savedProperties' = WriteSnapshot(i, MarkSavedFields(savedProperties[i], ch.fields))
                 /\ forceSaveProperties' = WriteForceSet(i, ForceAfterSave(forceSaveProperties[i]))
                 /\ clean' = clean \cup {i}
                                  /\ lastCall' = Call("save", i, GetPrimaryKey(i), "true", "none", "none",
                                     "UPDATE", ch.fields, resp, "updated", was,
                                     i \in clean)
                 /\ emitted' = SendEvent(<< >>,
                      ModelEvent("updated", i, ch.fields, OriginalProperties(i), TRUE,
                                 MarkSavedFields(savedProperties[i], ch.fields)))
                 /\ UNCHANGED << nextInsertId, deleted >>
    /\ UNCHANGED queryVars
    /\ UNCHANGED << cls, snapshotOf, forceSetOf, alive, parent >>

\* ---- delete ----------------------------------------------------------------
\* DeleteError without the check of the existence flag
DeleteError_IgnoresExistence(i) ==
    IF ~Falsy(GetPrimaryKey(i)) THEN "none"
    ELSE IF existsInDatabase[i] THEN "noIdSelected" ELSE "cannotDelete"

\* delete(): the guards; the error raised, or "none"
DeleteError(i) ==
    IF Falsy(GetPrimaryKey(i)) /\ existsInDatabase[i] THEN "noIdSelected"
    ELSE IF Falsy(GetPrimaryKey(i)) \/ ~existsInDatabase[i] THEN "cannotDelete"
    ELSE "none"

\* delete() does not raise on these responses to the DELETE
DeleteAccepted(resp) == resp \in {"ok", "zero"}

\* delete(): the auto-increment primary key is erased from memory
PropsAfterDelete(p) ==
    IF AutoIncrementPrimary(cls) THEN Erased(p, PrimaryName) ELSE p

\* SnapshotAfterDelete that keeps the snapshot
SnapshotAfterDelete_Kept(old) == old

\* delete(): savedProperties.clear()
SnapshotAfterDelete(old) == NoFields

Delete(i, resp) ==
    /\ alive[i]
    /\ nops < MaxOps
    /\ nops' = nops + 1
    /\ IF DeleteError(i) # "none"
              THEN /\ lastCall' = Plain("delete", i, "throw", DeleteError(i))
            /\ emitted' = << >>
            /\ UNCHANGED << props, existsInDatabase, savedProperties, clean, deleted >>
       ELSE IF ~DeleteAccepted(resp)
       THEN /\ lastCall' = Call("delete", i, GetPrimaryKey(i), "throw", "storage",
                                "none", "DELETE", NoFields, resp, "none",
                                                                existsInDatabase[i], i \in clean)
            /\ emitted' = << >>
            /\ UNCHANGED << props, existsInDatabase, savedProperties, clean, deleted >>
       ELSE /\ existsInDatabase' = [existsInDatabase EXCEPT ![i] = FALSE]
            /\ props' = [props EXCEPT ![i] = PropsAfterDelete(@)]
            /\ savedProperties' = WriteSnapshot(i, SnapshotAfterDelete(savedProperties[i]))
            /\ clean' = clean \ ({i} \cup {k \in Insts : parent[k] = i})
            /\ deleted' = deleted \cup {i}
            /\ lastCall' = Call("delete", i, GetPrimaryKey(i), "ok", "none", "none",
                                                                "DELETE", NoFields, resp, "deleted",
                                existsInDatabase[i], i \in clean)
            /\ emitted' = SendEvent(<< >>,
                 ModelEvent("deleted", i, NoFields, NoFields, FALSE,
                            SnapshotAfterDelete(savedProperties[i])))
    /\ UNCHANGED queryVars
    /\ UNCHANGED << cls, snapshotOf, forceSetOf, alive, parent, forceSaveProperties, nextInsertId >>



\* ---- markSaved() and copyFrom(from), called by application code ----------------
\* markSaved(): the first column, in declaration order, whose property
\* column.to rejects (0: none)
MarkSavedFailsAt(p) ==
    LET cols == ColumnsTable[cls]
        bad == {k \in 1..Len(cols) :
                   /\ p[cols[k].name] # Undefined
                   /\ ColumnTo(cols[k], p[cols[k].name]) = Throw}
    IN  IF bad = {} THEN 0 ELSE CHOOSE k \in bad : \A m \in bad : k <= m

\* markSaved(): the snapshot once the loop has passed the columns before the k-th
MarkSavedUpTo(old, p, k) ==
    LET cols == ColumnsTable[cls]
    IN  [n \in ColNames |->
            IF p[n] # Undefined /\ \E m \in 1..(k - 1) : cols[m].name = n
            THEN ColumnTo(Column(n), p[n])
            ELSE old[n]]

\* markSaved() with no fields
MarkSaved(i) ==
    /\ alive[i]
    /\ IsSubject(i)
    /\ nops < MaxOps
    /\ nops' = nops + 1
    /\ existsInDatabase' = [existsInDatabase EXCEPT ![i] = TRUE]
    /\ forceSaveProperties' = WriteForceSet(i, ForceAfterSave(forceSaveProperties[i]))
    /\ LET k == MarkSavedFailsAt(props[i])
       IN  IF k # 0
           THEN /\ savedProperties' =
                     WriteSnapshot(i, MarkSavedUpTo(savedProperties[i], props[i], k))
                /\ lastCall' = [Plain("markSaved", i, "throw", "to")
                                    EXCEPT !.column = ColumnsTable[cls][k].name]
                /\ UNCHANGED props
           ELSE /\ savedProperties' =
                     WriteSnapshot(i, MarkSavedSnapshot(savedProperties[i], props[i]))
                /\ props' = [props EXCEPT ![i] = SyncForeignKey(i, props[i])]
                /\ lastCall' = Plain("markSaved", i, "ok", "none")
    /\ clean' = clean \ {i}
    /\ deleted' = deleted \ {i}
    /\ emitted' = << >>
    /\ UNCHANGED queryVars
    /\ UNCHANGED << cls, snapshotOf, forceSetOf, alive, parent, nextInsertId >>

\* copyFrom(from): the column properties are copied, the relation is
\* unloaded, and the two fields are assigned the Map and the Set of `from`
CopyFrom(i, from) ==
    /\ alive[i]
    /\ alive[from]
    /\ i # from
    /\ nops < MaxOps
    /\ nops' = nops + 1
    /\ props' = [props EXCEPT ![i] =
                    [n \in ColNames |-> IF n \in Declared THEN props[from][n] ELSE @[n]]]
    /\ parent' = [parent EXCEPT ![i] = RelUndefined]
    /\ snapshotOf' = [snapshotOf EXCEPT ![i] = snapshotOf[from]]
    /\ forceSetOf' = [forceSetOf EXCEPT ![i] = forceSetOf[from]]
    /\ savedProperties' = [savedProperties EXCEPT ![i] = savedProperties[from]]
    /\ forceSaveProperties' = [forceSaveProperties EXCEPT ![i] = forceSaveProperties[from]]
    /\ clean' = clean \ {i}
    /\ lastCall' = [Plain("copyFrom", i, "ok", "none") EXCEPT !.id = props[from][PrimaryName]]
    /\ emitted' = << >>
    /\ UNCHANGED queryVars
    /\ UNCHANGED << cls, alive, existsInDatabase, nextInsertId, deleted >>

\* ---- the system ------------------------------------------------------------
Responses == {"ok", "zero", "error"}
NowValues == IntVals

Next ==
    \/ \E i \in Insts : New(i)
    \/ \E i \in Insts : \E row \in RowTable[cls] : FromRow(i, row)
    \/ \E i \in Insts : \E n \in ColNames : \E v \in IntVals \cup StrVals \cup BoolVals \cup {Null} :
            Assign(i, n, v)
    \/ \E i \in Insts : \E j \in Insts \cup {RelNull} : AssignRelation(i, j)
    \/ \E i \in Insts : \E j \in Insts \cup {RelNull} : SetOptionalRelation(i, j)
    \/ \E i \in Insts : UnsetRelation(i)
    \/ \E i \in Insts : \E j \in Insts : SetRelation(i, j)
    \/ \E i \in Insts : UnloadRelation(i)
    \/ \E i \in Insts : \E k \in ColNames : ForceSaveProperty(i, k)
    \/ \E i \in Insts : MarkAllChanged(i)
    \/ \E i \in Insts : \E k \in ColNames : EraseProperty(i, k)
    \/ \E i \in Insts : \E resp \in Responses : \E now \in NowValues : Save(i, resp, now)
    \/ \E i \in Insts : \E resp \in Responses : Delete(i, resp)

Spec == Init /\ [][Next]_vars

\* the same calls, with markSaved() and copyFrom() called by application code too
NextCopy ==
    \/ Next
    \/ \E i \in Insts : MarkSaved(i)
    \/ \E i \in Insts : \E from \in Insts : CopyFrom(i, from)

SpecCopy == Init /\ [][NextCopy]_vars


\* ---- vocabulary of the properties -------------------------------------------
RelationErrors == {"relationNotSaved", "foreignKeyModified", "foreignKeySet"}
PrimaryKeyErrors == {"noIdSelected", "primaryKeySet"}
DeleteErrors == {"noIdSelected", "cannotDelete"}

\* a primary-key value is carried: the property is neither undefined nor null
Present(v) == v \notin {Undefined, Null}

\* the step is a call of save(), of delete(), on instance i
SaveStep(i) == nops' = nops + 1 /\ lastCall'.op = "save" /\ lastCall'.inst = i
DeleteStep(i) == nops' = nops + 1 /\ lastCall'.op = "delete" /\ lastCall'.inst = i

\* the call of the step raised one of these errors and issued no statement
RejectedBy(errors) ==
    /\ lastCall'.result = "throw"
    /\ lastCall'.error \in errors
    /\ lastCall'.stmt = "none"

\* the save() was not rejected by the relation check or the primary-key check
PassedChecks(call) == call.error \notin RelationErrors \cup PrimaryKeyErrors

\* the declared columns other than an auto-increment primary key
NonAutoIncrement == {n \in Declared : ~IsAutoIncrement(cls, Column(n))}

\* the columns a statement carries
FieldNames(fields) == {n \in ColNames : fields[n] # Undefined}

\* the columns other than an auto-increment primary key that instance i lacks,
\* and those it still lacks once the pre-save transforms have run
Absent(i) == {n \in NonAutoIncrement : props[i][n] = Undefined}
AbsentAfterTransforms(i) == {n \in Absent(i) : ~Column(n).beforeSave}

\* the changed-field set of the save() of the step: the present columns that
\* are force-saved, have no snapshot entry, or whose stored form differs from
\* the snapshot, taken after the pre-save transforms
ChangedColumns(i) ==
    {n \in NonAutoIncrement :
        /\ props'[i][n] # Undefined
        /\ \/ n \in forceSaveProperties[i]
           \/ savedProperties[i][n] = Undefined
           \/ ColumnTo(Column(n), props'[i][n]) # savedProperties[i][n]}

\* ---- C1 ---------------------------------------------------------------------
\* C1: save() on an instance whose single-valued relation is loaded raises a
\* usage error and issues no statement when (a) the relation is set and its
\* target is not Persisted, (b) the relation is set and the owner's foreign
\* key differs from the target's primary key, or (c) the relation is loaded
\* as null and the owner's foreign key is not null.
C1_RelationMismatchRejected ==
    [][\A i \in Insts :
         (SaveStep(i) /\ HasRelation /\ IsLoaded(i)) =>
            /\ (IsSet(i) /\ ~existsInDatabase[parent[i]])
                  => RejectedBy({"relationNotSaved"})
            /\ (IsSet(i) /\ props[i][ForeignKey] # props[parent[i]][PrimaryName])
                  => RejectedBy({"relationNotSaved", "foreignKeyModified"})
            /\ (parent[i] = RelNull /\ props[i][ForeignKey] # Null)
                  => RejectedBy({"foreignKeySet"})]_vars

\* a save() was rejected because the foreign key differs from the primary key
\* of the Persisted target of the relation
C1_Witness ==
    /\ lastCall.op = "save"
    /\ lastCall.error = "foreignKeyModified"
    /\ IsSet(lastCall.inst)
    /\ existsInDatabase[parent[lastCall.inst]]
    /\ props[lastCall.inst][ForeignKey] # props[parent[lastCall.inst]][PrimaryName]

\* ---- C2 ---------------------------------------------------------------------
\* C2: for every instance fromRow produces (any non-null primary key, any
\* subset of the columns present), a save() made right after it, with no
\* field mutated, issues no statement and returns false.  Stated for the
\* entity types without pre-save transforms, where save() itself changes no
\* field.  The code violates it: a row whose primary key is 0 or '' gives an
\* instance, and save() raises on it.
C2_FromRowThenSaveIsNoOp ==
    [][\A i \in Insts :
         (/\ lastCall.op = "fromRow" /\ lastCall.inst = i /\ lastCall.result = "ok"
          /\ ~HasBeforeSave
          /\ SaveStep(i))
         => (lastCall'.result = "false" /\ lastCall'.stmt = "none")]_vars

\* ---- C3 ---------------------------------------------------------------------
\* C3: after a save() that returned true, a further save() of the same
\* instance, with nothing but equal re-assignments in between and an entity
\* type without pre-save transforms, issues no statement and returns false.
\* The code violates it: an instance inserted with the primary key '' is
\* Persisted, and its next save() raises.
C3_SaveAfterSaveIsNoOp ==
    (lastCall.op = "save" /\ lastCall.wasClean /\ ~HasBeforeSave)
        => (lastCall.result = "false" /\ lastCall.stmt = "none")

\* C3, for the saves the primary-key check lets through: the snapshot was
\* refreshed from the fields written, so nothing is written again.
C3_SaveAfterSaveIsNoOpWhenAccepted ==
    (lastCall.op = "save" /\ lastCall.wasClean /\ ~HasBeforeSave
        /\ lastCall.error # "noIdSelected")
        => (lastCall.result = "false" /\ lastCall.stmt = "none")

C5_PrimaryKeyCheck ==
    (lastCall.op = "save" /\ lastCall.error \notin RelationErrors) =>
        ((lastCall.error \in PrimaryKeyErrors /\ lastCall.stmt = "none")
            <=> \/ ~lastCall.wasPersisted /\ AutoIncrementPrimary(cls) /\ Present(lastCall.id)
                \/ lastCall.wasPersisted /\ ~Present(lastCall.id))

\* ---- C6 ---------------------------------------------------------------------
\* C6 as stated: after delete() completes on a Persisted instance of any
\* entity type, the existence flag is false, the primary key is erased from
\* memory and the snapshot is empty.  Violated: a primary key that is not
\* auto-increment stays in memory.
C6_DeletedStateAsStated ==
    (lastCall.op = "delete" /\ lastCall.result = "ok") =>
        /\ ~existsInDatabase[lastCall.inst]
        /\ props[lastCall.inst][PrimaryName] = Undefined
        /\ savedProperties[lastCall.inst] = NoFields

\* C6, corrected: the existence flag is false and the snapshot is empty; an
\* auto-increment primary key is erased from memory, any other primary key
\* keeps its value.
C6_DeletedState ==
    (lastCall.op = "delete" /\ lastCall.result = "ok") =>
        /\ lastCall.wasPersisted
        /\ ~existsInDatabase[lastCall.inst]
        /\ savedProperties[lastCall.inst] = NoFields
        /\ props[lastCall.inst][PrimaryName] =
              IF AutoIncrementPrimary(cls) THEN Undefined ELSE lastCall.id

\* a delete() completed on an instance whose primary key is not auto-increment
C6_Witness ==
    /\ lastCall.op = "delete" /\ lastCall.result = "ok"
    /\ ~AutoIncrementPrimary(cls)
    /\ Present(props[lastCall.inst][PrimaryName])

C8_SkipUpdate ==
    [][\A i \in Insts :
         (SaveStep(i) /\ existsInDatabase[i] /\ PassedChecks(lastCall')) =>
            IF \A n \in ChangedColumns(i) :
                    Column(n).skipUpdate /\ n \notin forceSaveProperties[i]
            THEN /\ lastCall'.result = "false"
                 /\ lastCall'.stmt = "none"
                 /\ savedProperties'[i] = savedProperties[i]
            ELSE /\ lastCall'.stmt = "UPDATE"
                 /\ FieldNames(lastCall'.fields) = ChangedColumns(i)]_vars

\* an UPDATE written for a changed column carried a changed skip-update
\* column with it
C8_Witness ==
    /\ lastCall.op = "save" /\ lastCall.wasPersisted
    /\ lastCall.stmt = "UPDATE" /\ lastCall.result = "true"
    /\ \E n \in FieldNames(lastCall.fields) : Column(n).skipUpdate
    /\ \E n \in FieldNames(lastCall.fields) : ~Column(n).skipUpdate

\* ---- C9 ---------------------------------------------------------------------
\* C9: after forceSaveProperty(k) on a Persisted instance whose column k has a
\* value, the next save() issues an UPDATE whose fields contain k.  Stated
\* for k other than an auto-increment primary key and for saves the relation
\* check lets through.  The code violates it: on an instance loaded with the
\* primary key 0 or '' the save() raises.
C9_ForcedColumnIsWritten ==
    [][\A i \in Insts : \A k \in ColNames :
         (/\ lastCall.op = "forceSaveProperty" /\ lastCall.inst = i
          /\ lastCall.column = k
          /\ SaveStep(i)
          /\ existsInDatabase[i]
          /\ k \in NonAutoIncrement /\ props[i][k] # Undefined
          /\ lastCall'.error \notin RelationErrors)
         => (lastCall'.stmt = "UPDATE" /\ lastCall'.fields[k] # Undefined)]_vars

\* ---- C10 --------------------------------------------------------------------
\* C10: when the UPDATE of a save() changes no row, save() returns true,
\* the snapshot holds the fields written and the instance stays Persisted;
\* when the DELETE of a delete() affects no row, delete() does not raise and
\* the instance is Deleted: existence flag false, snapshot empty.
C10_ZeroRowsIsNoFailure ==
    /\ (lastCall.op = "save" /\ lastCall.stmt = "UPDATE" /\ lastCall.resp = "zero") =>
          /\ lastCall.result = "true"
          /\ existsInDatabase[lastCall.inst]
          /\ \A n \in FieldNames(lastCall.fields) :
                savedProperties[lastCall.inst][n] = lastCall.fields[n]
    /\ (lastCall.op = "delete" /\ lastCall.stmt = "DELETE" /\ lastCall.resp = "zero") =>
          /\ lastCall.result = "ok"
          /\ ~existsInDatabase[lastCall.inst]
          /\ savedProperties[lastCall.inst] = NoFields
          /\ lastCall.inst \in deleted

\* an UPDATE that changed no row was taken as a successful save
C10_Witness ==
    /\ lastCall.op = "save" /\ lastCall.stmt = "UPDATE" /\ lastCall.resp = "zero"
    /\ lastCall.result = "true"
    /\ FieldNames(lastCall.fields) # {}

\* ---- C11 --------------------------------------------------------------------
\* the one notification a call sent is of this type, about instance i, and was
\* sent when the instance already had this existence flag and the snapshot the
\* call leaves behind
SentOne(type, i, exists) ==
    /\ Len(emitted') = 1
    /\ emitted'[1].type = type
    /\ emitted'[1].model = i
    /\ emitted'[1].exists = exists
    /\ existsInDatabase'[i] = exists
    /\ emitted'[1].snapshot = savedProperties'[i]

\* C11: a save() whose INSERT storage accepts sends exactly one 'created'
\* notification, a save() whose UPDATE storage accepts exactly one 'updated'
\* notification, and a delete() that completes exactly one 'deleted'
\* notification, each sent when the existence flag and the snapshot of the
\* instance are already updated (the snapshot holds the written fields, or is
\* empty after delete()); a save() that returns false or raises sends none;
\* the changed fields of 'updated' are the fields of the UPDATE and its
\* original fields are the snapshot as it was before the call.
C11_LifecycleNotifications ==
    [][\A i \in Insts :
         /\ SaveStep(i) =>
              /\ (lastCall'.stmt = "INSERT" /\ lastCall'.result = "true") =>
                    /\ SentOne("created", i, TRUE)
                    /\ \A n \in FieldNames(lastCall'.fields) :
                          emitted'[1].snapshot[n] = lastCall'.fields[n]
              /\ (lastCall'.stmt = "UPDATE" /\ lastCall'.result = "true") =>
                    /\ SentOne("updated", i, TRUE)
                    /\ \A n \in FieldNames(lastCall'.fields) :
                          emitted'[1].snapshot[n] = lastCall'.fields[n]
                    /\ emitted'[1].changedFields = lastCall'.fields
                    /\ emitted'[1].originalFields = savedProperties[i]
              /\ lastCall'.result # "true" => emitted' = << >>
         /\ (DeleteStep(i) /\ lastCall'.result = "ok") =>
              /\ SentOne("deleted", i, FALSE)
              /\ emitted'[1].snapshot = NoFields
      ]_vars

\* an accepted UPDATE that changed the snapshot has sent its notification
C11_Witness ==
    /\ lastCall.op = "save"
    /\ lastCall.stmt = "UPDATE"
    /\ lastCall.result = "true"
    /\ Len(emitted) = 1
    /\ emitted[1].type = "updated"
    /\ emitted[1].originalFields # emitted[1].snapshot
    /\ FieldNames(emitted[1].changedFields) # {}

\* ---- C13 --------------------------------------------------------------------
\* the calls that write the snapshot or the force-save set of their instance
OwnerCalls ==
    {"save", "markSaved", "forceSaveProperty", "markAllChanged", "eraseProperty",
     "delete"}

\* C13: no two distinct instances share a snapshot or a force-save set: after
\* any sequence of calls, copyFrom included, a save(), markSaved(),
\* forceSaveProperty(), markAllChanged(), eraseProperty() or delete() on one
\* instance leaves the snapshot and the force-save set of every other
\* instance unchanged.
C13_ExclusiveOwnership ==
    [][\A i \in Insts :
         (nops' = nops + 1 /\ lastCall'.inst = i /\ lastCall'.op \in OwnerCalls) =>
            \A j \in Insts \ {i} :
               /\ savedProperties'[j] = savedProperties[j]
               /\ forceSaveProperties'[j] = forceSaveProperties[j]
      ]_vars

\* ---- C14 --------------------------------------------------------------------
\* C14: in every reachable state an instance whose existence flag is false
\* (Transient or Deleted) has an empty snapshot.
C14_NoSnapshotUnlessPersisted ==
    \A i \in Insts :
       (alive[i] /\ ~existsInDatabase[i]) => savedProperties[i] = NoFields

\* ---- Query.ts: filters --------------------------------------------------------
\* static table of the queried entity, and Database.escapeId, which puts the
\* identifier between backticks (written ' here: a TLA+ string cannot hold a
\* backtick)
Table == "dogs"
EscapeId(id) == "'" \o id \o "'"

\* columnToString(column, defaultNamespace): column is a string or a selector
ColumnToString(column, defaultNamespace) ==
    LET name == column.items[1]
        namespace == IF column.kind = "column" /\ column.items[2] # ""
                     THEN column.items[2]
                     ELSE defaultNamespace
    IN  IF namespace # ""
        THEN EscapeId(namespace) \o "." \o EscapeId(name)
        ELSE EscapeId(name)

\* new WhereEqual(column, signOrValue, value): with two arguments the second
\* is the value and the sign is Equal
WhereEqual(column, signOrValue, value) ==
    IF value # UndefinedValue
    THEN Node("equal", column,
              IF signOrValue.kind = "scalar" THEN signOrValue.items[1] ELSE "",
              value, << >>)
    ELSE Node("equal", column, "Equal", signOrValue, << >>)

\* new WhereAnd(a, b), new WhereOr(a, b), new WhereNot(a)
WhereAnd(a, b) == Node("and", UndefinedValue, "", UndefinedValue, << a, b >>)
WhereOr(a, b) == Node("or", UndefinedValue, "", UndefinedValue, << a, b >>)
WhereNot(a) == Node("not", UndefinedValue, "", UndefinedValue, << a >>)

\* IsSingle for a WhereNot that does not override the getter of Where
IsSingle_NotIsCompound(w) == w.kind = "equal"

\* get isSingle(): true of WhereEqual, of WhereNot what it is of its operand,
\* false of the others (Where)
RECURSIVE IsSingle(_)
IsSingle(w) ==
    CASE w.kind = "equal" -> TRUE
      [] w.kind = "not" -> IsSingle(w.kids[1])
      [] OTHER -> FALSE

\* WhereEqual.clone(): the constructor, then Object.assign(c, this)
Clone(w) ==
    LET c == WhereEqual(w.column, Scalar(w.sign), w.value)
    IN  [c EXCEPT !.column = w.column, !.sign = w.sign, !.value = w.value]

\* WhereEqual.invert(): the sign of this object is flipped
Invert(w) == [w EXCEPT !.sign = IF w.sign = "Equal" THEN "NotEqual" ELSE "Equal"]

\* WhereEqual.inverted(): clone().invert(), the copy that is returned
Inverted(w) == Invert(Clone(w))

\* WhereEqual.inverted(): the receiver after the call; invert() ran on the clone
AfterInverted(w) == w

\* WhereEqualGetSQL that has no case for null: null is bound like a string
WhereEqualGetSQL_NullAsParameter(w, defaultNamespace) ==
    LET column == ColumnToString(w.column, defaultNamespace)
        negated == w.sign = "NotEqual"
    IN  CASE w.value.kind = "list" ->
               [sql |-> column \o " " \o (IF negated THEN "NOT IN" ELSE "IN") \o " (?)",
                params |-> << w.value >>]
          [] w.value.kind \in {"scalar", "null"} ->
               [sql |-> column \o " " \o (IF negated THEN "!=" ELSE "=") \o " ?",
                params |-> << w.value >>]
          [] OTHER ->
               [sql |-> column \o " " \o (IF negated THEN "!=" ELSE "=") \o " "
                            \o ColumnToString(w.value, defaultNamespace),
                params |-> << >>]

\* WhereEqual.getSQL
WhereEqualGetSQL(w, defaultNamespace) ==
    LET column == ColumnToString(w.column, defaultNamespace)
        negated == w.sign = "NotEqual"
    IN  CASE w.value.kind = "list" ->
               [sql |-> column \o " " \o (IF negated THEN "NOT IN" ELSE "IN") \o " (?)",
                params |-> << w.value >>]
          [] w.value.kind = "scalar" ->
               [sql |-> column \o " " \o (IF negated THEN "!=" ELSE "=") \o " ?",
                params |-> << w.value >>]
          [] w.value.kind = "null" ->
               [sql |-> column \o " IS " \o (IF negated THEN "NOT " ELSE "") \o "NULL",
                params |-> << >>]
          [] OTHER ->
               [sql |-> column \o " " \o (IF negated THEN "!=" ELSE "=") \o " "
                            \o ColumnToString(w.value, defaultNamespace),
                params |-> << >>]

\* WhereAnd.getSQL and WhereOr.getSQL: an operand that is not single is put
\* in parentheses
Brackets(w, sql) == IF ~IsSingle(w) THEN "(" \o sql \o ")" ELSE sql

\* getSQL of a Where object
RECURSIVE GetSQL(_, _)
GetSQL(w, defaultNamespace) ==
    CASE w.kind = "equal" -> WhereEqualGetSQL(w, defaultNamespace)
      [] w.kind \in {"and", "or"} ->
            LET sqlA == GetSQL(w.kids[1], defaultNamespace)
                sqlB == GetSQL(w.kids[2], defaultNamespace)
            IN  [sql |-> Brackets(w.kids[1], sqlA.sql)
                            \o (IF w.kind = "and" THEN " AND " ELSE " OR ")
                            \o Brackets(w.kids[2], sqlB.sql),
                 params |-> sqlA.params \o sqlB.params]
      [] w.kind = "not" ->
            IF w.kids[1].kind = "equal"
            THEN GetSQL(Inverted(w.kids[1]), defaultNamespace)
            ELSE LET sqlA == GetSQL(w.kids[1], defaultNamespace)
                 IN  [sql |-> "NOT (" \o sqlA.sql \o ")", params |-> sqlA.params]
      [] OTHER -> [sql |-> "", params |-> << >>]

\* the Where object after getSQL was called on it
RECURSIVE AfterGetSQL(_)
AfterGetSQL(w) ==
    CASE w.kind \in {"and", "or"} ->
            [w EXCEPT !.kids = << AfterGetSQL(w.kids[1]), AfterGetSQL(w.kids[2]) >>]
      [] w.kind = "not" ->
            IF w.kids[1].kind = "equal"
            THEN [w EXCEPT !.kids = << AfterInverted(w.kids[1]) >>]
            ELSE [w EXCEPT !.kids = << AfterGetSQL(w.kids[1]) >>]
      [] OTHER -> w

\* ---- Query.parseWhere ------------------------------------------------------------
\* the first argument of a builder method may also be a Where object, an
\* array of Where objects, or a column-to-value mapping
WhereArg(w) == [kind |-> "where", items |-> << >>, wheres |-> << w >>]
ArrayArg(ws) == [kind |-> "array", items |-> << >>, wheres |-> ws]
Mapping(keys, vals) == [kind |-> "mapping", items |-> keys, vals |-> vals]

\* isColumnSelector(a): a string, or an object with a string `column`
IsColumnSelector(a) == a.kind \in {"scalar", "column"}

\* Object.keys(where) and the values under them, of a mapping or of a
\* selector object (which has the keys column and, when set, namespace)
KeysOf(a) ==
    IF a.kind = "mapping" THEN a.items
    ELSE IF a.items[2] # "" THEN << "column", "namespace" >> ELSE << "column" >>
ValuesOf(a) ==
    IF a.kind = "mapping" THEN a.vals
    ELSE IF a.items[2] # "" THEN << Scalar(a.items[1]), Scalar(a.items[2]) >>
         ELSE << Scalar(a.items[1]) >>

\* c = where[0]; for (w of where.slice(1)) c = c.and(w)
RECURSIVE AndAll(_)
AndAll(ws) ==
    IF Len(ws) = 1 THEN ws[1]
    ELSE WhereAnd(AndAll(SubSeq(ws, 1, Len(ws) - 1)), ws[Len(ws)])

\* parseWhere of an array of Where objects
ParseWhereArray(ws) ==
    IF Len(ws) = 0
    THEN [error |-> "emptyWhere", where |-> NoWhere]
    ELSE [error |-> "none", where |-> AndAll(ws)]

\* Query.parseWhere(whereOrColumn, signOrValue, value): the Where object, or
\* the error that is thrown
ParseWhere(whereOrColumn, signOrValue, value) ==
    IF signOrValue # UndefinedValue /\ IsColumnSelector(whereOrColumn)
    THEN [error |-> "none", where |-> WhereEqual(whereOrColumn, signOrValue, value)]
    ELSE IF signOrValue = UndefinedValue /\ whereOrColumn.kind = "scalar"
    THEN [error |-> "invalidWhere", where |-> NoWhere]
    ELSE IF whereOrColumn.kind = "array"
    THEN ParseWhereArray(whereOrColumn.wheres)
    ELSE IF whereOrColumn.kind # "where"
    THEN ParseWhereArray(
            [k \in 1..Len(KeysOf(whereOrColumn)) |->
                WhereEqual(Scalar(KeysOf(whereOrColumn)[k]), ValuesOf(whereOrColumn)[k],
                           UndefinedValue)])
    ELSE [error |-> "none", where |-> whereOrColumn.wheres[1]]

\* ---- Model.buildWhereOperator ------------------------------------------------------
\* array.filter(v => v !== null)
RECURSIVE Filtered(_)
Filtered(items) ==
    IF Len(items) = 0 THEN << >>
    ELSE IF items[1] = NullElement THEN Filtered(Tail(items))
    ELSE << items[1] >> \o Filtered(Tail(items))

\* value.includes(null)
IncludesNull(items) == \E k \in 1..Len(items) : items[k] = NullElement

\* Model.buildWhereOperator(key, {sign, value, mode}): the fragment and its
\* parameters, or the error that is thrown
BuildWhereOperator(key, sign, value, mode) ==
    LET column == EscapeId(Table) \o "." \o EscapeId(key)
        Ok(sql, params) == [sql |-> sql, params |-> params, error |-> "none"]
        Fails(e) == [sql |-> "", params |-> << >>, error |-> e]
    IN  CASE sign = "MATCH" ->
               IF mode = "" THEN Ok("MATCH(" \o column \o ") AGAINST(?)", << value >>)
               ELSE IF mode = "BOOLEAN"
               THEN Ok("MATCH(" \o column \o ") AGAINST(? IN BOOLEAN MODE)", << value >>)
               ELSE Fails("unknownMatchMode")
          [] sign = "LIKE" -> Ok(column \o " LIKE ?", << value >>)
          [] sign = "!=" ->
               IF value.kind = "null" THEN Ok(column \o " IS NOT NULL", << >>)
               ELSE Ok(column \o " != ?", << value >>)
          [] sign \in {"<", ">", "<=", ">="} -> Ok(column \o " " \o sign \o " ?", << value >>)
          [] sign = "=" ->
               IF value.kind = "null" THEN Ok(column \o " IS NULL", << >>)
               ELSE Ok(column \o " = ?", << value >>)
          [] sign = "IN" ->
               IF value.kind # "list" THEN Fails("expectedArray")
               ELSE IF IncludesNull(value.items)
               THEN LET filtered == Filtered(value.items)
                    IN  IF Len(filtered) = 0 THEN Ok(column \o " IS NULL", << >>)
                        ELSE IF Len(filtered) = 1
                        THEN Ok("(" \o column \o " = ? OR " \o column \o " IS NULL)",
                                << Scalar(filtered[1]) >>)
                        ELSE Ok("(" \o column \o " IN (?) OR " \o column \o " IS NULL)",
                                << List(filtered) >>)
               ELSE Ok(column \o " IN (?)", << value >>)
          [] OTHER -> Fails("signNotSupported")

\* ---- filters: what application code calls ------------------------------------------
MaxWhereSteps == 3

WhereSigns == {"Equal", "NotEqual"}

\* the values filters are made with: a string, null, arrays with and without
\* null elements, a column of the same table
WhereValues ==
    {Scalar("a"), NullValue, List(<< >>), List(<< "a", "b" >>),
     List(<< "a", NullElement >>), List(<< "a", "b", NullElement >>),
     List(<< NullElement >>), Selector("color", "")}

\* new WhereEqual('name', sign, value)
Leaf(sign, value) == WhereEqual(Scalar("name"), Scalar(sign), value)

\* the filters that are combined with the one in hand: a leaf, a negated
\* leaf, a conjunction and a negated disjunction
OtherLeaf == WhereEqual(Scalar("color"), Scalar("b"), UndefinedValue)
Operands ==
    {OtherLeaf, WhereNot(OtherLeaf), WhereAnd(OtherLeaf, Leaf("NotEqual", NullValue)),
     WhereNot(WhereOr(OtherLeaf, Leaf("Equal", Scalar("a"))))}

\* the argument lists parseWhere is called with: (column, value),
\* (column, sign, value), a mapping with one, two or no columns, a WhereEqual
\* object, an array of two or of no Where objects, a column alone, and a
\* selector object alone
ParseInputs ==
    {<< Scalar("name"), v, UndefinedValue >> : v \in WhereValues}
    \cup {<< Scalar("name"), Scalar(sg), v >> : sg \in WhereSigns, v \in WhereValues}
    \cup {<< Mapping(<< "name" >>, << v >>), UndefinedValue, UndefinedValue >> :
             v \in WhereValues}
    \cup {<< WhereArg(Leaf(sg, v)), UndefinedValue, UndefinedValue >> :
             sg \in WhereSigns, v \in WhereValues}
    \cup {<< a, UndefinedValue, UndefinedValue >> :
             a \in {Mapping(<< "name", "color" >>, << Scalar("a"), Scalar("b") >>),
                    Mapping(<< >>, << >>),
                    ArrayArg(<< Leaf("Equal", Scalar("a")), OtherLeaf >>),
                    ArrayArg(<< >>),
                    Scalar("name"),
                    Selector("name", "")}}

\* Query.parseWhere(...args), called on no filter yet
ParseWhereCall(args) ==
    /\ tree = NoWhere
    /\ built = NoBuilt
    /\ wsteps < MaxWhereSteps
    /\ LET r == ParseWhere(args[1], args[2], args[3])
       IN  /\ tree' = r.where
           /\ whereCall' = [op |-> "parseWhere", args |-> args, error |-> r.error,
                            before |-> tree]
    /\ wsteps' = wsteps + 1
    /\ UNCHANGED << built, modelVars, serviceVars, builderVars, relationVars >>

\* new WhereNot(tree)
NotCall ==
    /\ tree # NoWhere
    /\ wsteps < MaxWhereSteps
    /\ tree' = WhereNot(tree)
    /\ whereCall' = [op |-> "not", args |-> << >>, error |-> "none", before |-> tree]
    /\ wsteps' = wsteps + 1
    /\ UNCHANGED << built, modelVars, serviceVars, builderVars, relationVars >>

\* tree.and(w), or w.and(tree)
AndCall(w, left) ==
    /\ tree # NoWhere
    /\ wsteps < MaxWhereSteps
    /\ tree' = IF left THEN WhereAnd(w, tree) ELSE WhereAnd(tree, w)
    /\ whereCall' = [op |-> "and", args |-> << >>, error |-> "none", before |-> tree]
    /\ wsteps' = wsteps + 1
    /\ UNCHANGED << built, modelVars, serviceVars, builderVars, relationVars >>

\* tree.or(w), or w.or(tree)
OrCall(w, left) ==
    /\ tree # NoWhere
    /\ wsteps < MaxWhereSteps
    /\ tree' = IF left THEN WhereOr(w, tree) ELSE WhereOr(tree, w)
    /\ whereCall' = [op |-> "or", args |-> << >>, error |-> "none", before |-> tree]
    /\ wsteps' = wsteps + 1
    /\ UNCHANGED << built, modelVars, serviceVars, builderVars, relationVars >>

\* tree.getSQL({defaultNamespace: table})
GetSQLCall ==
    /\ tree # NoWhere
    /\ wsteps < MaxWhereSteps
    /\ tree' = AfterGetSQL(tree)
    /\ whereCall' = [op |-> "getSQL", args |-> << >>, error |-> "none", before |-> tree]
    /\ wsteps' = wsteps + 1
    /\ UNCHANGED << built, modelVars, serviceVars, builderVars, relationVars >>

\* the signs and match modes buildWhereOperator is called with

\* Model.buildWhereOperator(key, {sign, value, mode}); the two ways of making
\* a filter share no state, and a run uses one of them
BuildWhereOperatorCall(key, sign, value, mode) ==
    /\ tree = NoWhere
    /\ whereCall = NoWhereCall
    /\ wsteps < MaxWhereSteps
    /\ mode # "" => sign = "MATCH"
    /\ LET r == BuildWhereOperator(key, sign, value, mode)
       IN  built' = [key |-> key, sign |-> sign, value |-> value, mode |-> mode,
                     sql |-> r.sql, params |-> r.params, error |-> r.error]
    /\ wsteps' = wsteps + 1
    /\ UNCHANGED << tree, whereCall, modelVars, serviceVars, builderVars, relationVars >>

InitWhere == Init /\ cls = "Animal"

NextWhere ==
    \/ \E args \in ParseInputs : ParseWhereCall(args)
    \/ NotCall
    \/ \E w \in Operands : \E left \in BOOLEAN : AndCall(w, left)
    \/ \E w \in Operands : \E left \in BOOLEAN : OrCall(w, left)
    \/ GetSQLCall
    \/ \E sign \in {"MATCH", "LIKE", "!=", "<", ">", "<=", ">=", "=", "IN", "<>"} :
       \E value \in WhereValues : \E mode \in {"", "BOOLEAN", "NATURAL"} :
          BuildWhereOperatorCall("name", sign, value, mode)

SpecWhere == InitWhere /\ [][NextWhere]_vars

\* ---- vocabulary of the properties of filters -------------------------------------
\* the fragment and parameters the filter in hand compiles to
Compiled == GetSQL(tree, Table)

\* the leaf (column, sign, value) an argument list of parseWhere stands for:
\* (column, sign, value), (column, value), a mapping with one column, or a
\* WhereEqual object
IsLeafForm(args) ==
    \/ args[1].kind = "scalar" /\ args[2] # UndefinedValue
    \/ args[1].kind = "mapping" /\ Len(args[1].items) = 1
    \/ args[1].kind = "where" /\ args[1].wheres[1].kind = "equal"

Denoted(args) ==
    IF args[1].kind = "scalar"
    THEN IF args[3] # UndefinedValue
         THEN [column |-> args[1].items[1], sign |-> args[2].items[1], value |-> args[3]]
         ELSE [column |-> args[1].items[1], sign |-> "Equal", value |-> args[2]]
    ELSE IF args[1].kind = "mapping"
    THEN [column |-> args[1].items[1], sign |-> "Equal", value |-> args[1].vals[1]]
    ELSE [column |-> args[1].wheres[1].column.items[1], sign |-> args[1].wheres[1].sign,
          value |-> args[1].wheres[1].value]

\* the column as it is written in a fragment
Quoted(column) == "'dogs'.'" \o column \o "'"

\* the other sign
Opposite(sign) == IF sign = "Equal" THEN "NotEqual" ELSE "Equal"

\* ---- C15 --------------------------------------------------------------------
\* C15: for a leaf x (equal or not-equal; scalar, null or list value),
\* not(not(x)) compiles to the fragment and parameters of x alone, and not(x)
\* compiles to the leaf with the sign inverted, without mutating x.
C15_DoubleNegation ==
    /\ (tree.kind = "not" /\ tree.kids[1].kind = "not"
           /\ tree.kids[1].kids[1].kind = "equal")
         => Compiled = GetSQL(tree.kids[1].kids[1], Table)
    /\ (tree.kind = "not" /\ tree.kids[1].kind = "equal")
         => Compiled = GetSQL([tree.kids[1] EXCEPT !.sign = Opposite(@)], Table)
    /\ whereCall.op = "getSQL" => tree = whereCall.before

\* the same for a single negation only
C15_SingleNegation ==
    /\ (tree.kind = "not" /\ tree.kids[1].kind = "equal")
         => Compiled = GetSQL([tree.kids[1] EXCEPT !.sign = Opposite(@)], Table)
    /\ whereCall.op = "getSQL" => tree = whereCall.before

\* ---- C16 --------------------------------------------------------------------
\* what the claim gives for a leaf whose value is null or a list
ExpectedLeaf(column, sign, value) ==
    IF value.kind = "null"
    THEN [sql |-> Quoted(column) \o (IF sign = "Equal" THEN " IS NULL" ELSE " IS NOT NULL"),
          params |-> << >>]
    ELSE [sql |-> Quoted(column) \o (IF sign = "Equal" THEN " IN (?)" ELSE " NOT IN (?)"),
          params |-> << value >>]

\* C16: a leaf with value null compiles to `col IS NULL` (equal) or
\* `col IS NOT NULL` (not-equal) with no parameter, a leaf with a list value
\* to `col IN (?)` or `col NOT IN (?)` with the whole list as one parameter,
\* whichever way the leaf is given: (column, value), (column, sign, value), a
\* column-to-value mapping or a WhereEqual object; and the negation of a leaf
\* compiles to what the leaf with the other sign compiles to.
C16_NullAndListLeaves ==
    /\ (whereCall.op = "parseWhere" /\ whereCall.error = "none"
           /\ IsLeafForm(whereCall.args)
           /\ Denoted(whereCall.args).value.kind \in {"null", "list"})
         => LET x == Denoted(whereCall.args)
            IN  Compiled = ExpectedLeaf(x.column, x.sign, x.value)
    /\ (whereCall.op = "not" /\ whereCall.before.kind = "equal")
         => LET x == whereCall.before
            IN  /\ x.value.kind \in {"null", "list"}
                     => Compiled = ExpectedLeaf(x.column.items[1], Opposite(x.sign), x.value)
                /\ Compiled = GetSQL([x EXCEPT !.sign = Opposite(@)], Table)

\* a mapping with a null value was parsed, and a not-equal list leaf was negated
C16_Witness ==
    \/ /\ whereCall.op = "parseWhere"
       /\ whereCall.args[1].kind = "mapping"
       /\ Len(whereCall.args[1].items) = 1
       /\ whereCall.args[1].vals[1] = NullValue
       /\ Compiled.sql = "'dogs'.'name' IS NULL"
    \/ /\ whereCall.op = "not"
       /\ whereCall.before = Leaf("NotEqual", List(<< "a", "b" >>))
       /\ Compiled.sql = "'dogs'.'name' IN (?)"

\* ---- C17 --------------------------------------------------------------------
\* the elements of a list that are not null
NonNull(items) == SelectSeq(items, LAMBDA e : e # NullElement)

\* what the claim gives for a membership filter whose list contains null
Rewritten(column, items) ==
    IF Len(NonNull(items)) = 0
    THEN [sql |-> Quoted(column) \o " IS NULL", params |-> << >>]
    ELSE IF Len(NonNull(items)) = 1
    THEN [sql |-> "(" \o Quoted(column) \o " = ? OR " \o Quoted(column) \o " IS NULL)",
          params |-> << Scalar(NonNull(items)[1]) >>]
    ELSE [sql |-> "(" \o Quoted(column) \o " IN (?) OR " \o Quoted(column) \o " IS NULL)",
          params |-> << List(NonNull(items)) >>]

\* no parameter is null or holds a null element
NoNullParameter(params) ==
    \A k \in 1..Len(params) :
       /\ params[k].kind # "null"
       /\ params[k].kind = "list" => ~IncludesNull(params[k].items)

\* C17: a membership filter whose list contains null is rewritten: to
\* `(col = ? OR col IS NULL)` with the one non-null element as parameter, to
\* `(col IN (?) OR col IS NULL)` with the non-null elements as parameter, or,
\* with no non-null element, to `col IS NULL` with no parameter; null is
\* never passed as a parameter.  Stated of both ways of making the filter.
C17_NullInList ==
    /\ (tree.kind = "equal" /\ tree.sign = "Equal" /\ tree.value.kind = "list"
           /\ IncludesNull(tree.value.items))
         => /\ Compiled = Rewritten(tree.column.items[1], tree.value.items)
            /\ NoNullParameter(Compiled.params)
    /\ (built.sign = "IN" /\ built.value.kind = "list" /\ IncludesNull(built.value.items))
         => /\ [sql |-> built.sql, params |-> built.params]
                  = Rewritten(built.key, built.value.items)
            /\ NoNullParameter(built.params)

\* the same of Model.buildWhereOperator alone
C17_NullInListOfOperator ==
    (built.sign = "IN" /\ built.value.kind = "list" /\ IncludesNull(built.value.items))
       => /\ [sql |-> built.sql, params |-> built.params]
                = Rewritten(built.key, built.value.items)
          /\ NoNullParameter(built.params)

\* ---- C18 --------------------------------------------------------------------
\* a filter is compound: an AND, an OR, or a NOT of a compound
RECURSIVE Compound(_)
Compound(w) ==
    \/ w.kind \in {"and", "or"}
    \/ w.kind = "not" /\ Compound(w.kids[1])

\* the Where objects a filter is made of
RECURSIVE Subtrees(_)
Subtrees(w) ==
    {w} \cup (IF Len(w.kids) = 0 THEN {}
              ELSE IF Len(w.kids) = 1 THEN Subtrees(w.kids[1])
              ELSE Subtrees(w.kids[1]) \cup Subtrees(w.kids[2]))

\* the fragment of an operand as the claim has it inside an AND or an OR
Operand(w) ==
    IF Compound(w) THEN "(" \o GetSQL(w, Table).sql \o ")" ELSE GetSQL(w, Table).sql

\* where({name: 'a', color: 'b'}).orWhere('color', 'b')
ExampleOfOr ==
    WhereOr(WhereAnd(WhereEqual(Scalar("name"), Scalar("a"), UndefinedValue),
                     WhereEqual(Scalar("color"), Scalar("b"), UndefinedValue)),
            OtherLeaf)

\* C18: in the fragment of an AND or an OR an operand is in parentheses
\* exactly when it is compound (an AND, an OR, or a NOT of a compound), never
\* when it is a leaf or a negated leaf; the operands come left to right, and
\* the parameters are those of the left operand followed by those of the
\* right one; where({a, b}).orWhere({c}) gives `(a = ? AND b = ?) OR c = ?`
\* with parameters [a, b, c].
C18_Parentheses ==
    /\ \A w \in Subtrees(tree) :
          w.kind \in {"and", "or"} =>
             /\ GetSQL(w, Table).sql
                   = Operand(w.kids[1]) \o (IF w.kind = "and" THEN " AND " ELSE " OR ")
                        \o Operand(w.kids[2])
             /\ GetSQL(w, Table).params
                   = GetSQL(w.kids[1], Table).params \o GetSQL(w.kids[2], Table).params
    /\ tree = ExampleOfOr =>
          Compiled = [sql |-> "('dogs'.'name' = ? AND 'dogs'.'color' = ?) OR 'dogs'.'color' = ?",
                      params |-> << Scalar("a"), Scalar("b"), Scalar("b") >>]

\* an AND of a negated leaf and of a negated compound has been made
C18_Witness ==
    /\ tree.kind = "and"
    /\ tree.kids[1].kind = "not"
    /\ tree.kids[1].kids[1].kind = "equal"
    /\ tree.kids[2].kind = "not"
    /\ tree.kids[2].kids[1].kind = "or"

\* ---- queries ----------------------------------------------------------------
\* A query object holds its filter, a reference to its `_join` array, a
\* reference to its `postFetch` array and its limit.  The arrays are objects:
\* joinLists and hookLists hold their contents, so a push through one
\* reference shows through every other reference to the same array.

\* how many queries are built from the first one
MaxBuilds == 2

\* new Join(model, on, type)
Join(model, on, type) == [model |-> model, on |-> on, type |-> type]

\* Join.getSQL: the namespace of the joined table is the default namespace of
\* the ON filter
JoinGetSQL(j) ==
    LET keyword == CASE j.type = "Left" -> "LEFT JOIN"
                     [] j.type = "Right" -> "RIGHT JOIN"
                     [] OTHER -> "JOIN"
        on == GetSQL(j.on, j.model)
    IN  [sql |-> keyword \o " " \o EscapeId(j.model) \o " ON " \o on.sql,
         params |-> on.params]

\* Model.getDefaultSelect(namespace)
GetDefaultSelect(namespace) == EscapeId(namespace) \o ".*"

\* the selects, the fragments and the parameters of the joins, in order
RECURSIVE JoinsGetSQL(_)
JoinsGetSQL(joins) ==
    IF Len(joins) = 0 THEN [select |-> "", sql |-> "", params |-> << >>]
    ELSE LET front == JoinsGetSQL(SubSeq(joins, 1, Len(joins) - 1))
             last == JoinGetSQL(joins[Len(joins)])
         IN  [select |-> front.select \o ", " \o GetDefaultSelect(joins[Len(joins)].model),
              sql |-> front.sql \o " " \o last.sql,
              params |-> front.params \o last.params]

\* SelectQuery.getSQL of a query whose `_join` array holds joins
SelectGetSQL(q, joins) ==
    LET j == JoinsGetSQL(joins)
        w == IF q.where = NoWhere THEN [sql |-> "", params |-> << >>]
             ELSE LET g == GetSQL(q.where, Table)
                  IN  [sql |-> " WHERE " \o g.sql, params |-> g.params]
        l == IF ~q.limit.set THEN ""
             ELSE " LIMIT " \o ToString(q.limit.limit)
                    \o (IF q.limit.offset # 0
                        THEN " OFFSET " \o ToString(q.limit.offset) ELSE "")
    IN  [sql |-> "SELECT " \o GetDefaultSelect(Table) \o j.select \o " FROM "
                    \o EscapeId(Table) \o j.sql \o w.sql \o l,
         params |-> j.params \o w.params]

\* an array copied by reference only: Object.assign without the slice()
SliceRef_SameArray(ref, heap) == ref

\* array.slice(): the reference of the copy, a new array
SliceRef(ref, heap) == Len(heap) + 1

\* the arrays after the slice
Slice(ref, heap) ==
    IF SliceRef(ref, heap) > Len(heap) THEN Append(heap, heap[ref]) ELSE heap

\* SelectQuery.clone: a new object with the fields of this one, and copies of
\* `_join` and `postFetch`
QueryClone(q) ==
    [q EXCEPT !.join = SliceRef(@, joinLists), !.postFetch = SliceRef(@, hookLists)]

\* a parseWhere that raised and was not caught
Thrown_Ignored(r) == FALSE

\* parseWhere raised: the builder is left at once, before clone()
Thrown(r) == r.error # "none"

\* the builder returns the clone c
Returns(op, c, joins, hooks) ==
    /\ queries' = Append(queries, c)
    /\ joinLists' = joins
    /\ hookLists' = hooks
    /\ lastBuild' = [op |-> op, error |-> "none"]

\* the builder raises
Raises(op, error) ==
    /\ lastBuild' = [op |-> op, error |-> error]
    /\ UNCHANGED << queries, joinLists, hookLists >>

WhereOps == {"where", "andWhere", "orWhere", "whereNot", "andWhereNot", "orWhereNot"}
JoinOps == {"join", "leftJoin", "rightJoin"}

\* arguments that are not a filter: a column without a value, an empty array,
\* an empty mapping
BadArgs ==
    {<< Scalar("name"), UndefinedValue, UndefinedValue >>,
     << ArrayArg(<< >>), UndefinedValue, UndefinedValue >>,
     << Mapping(<< >>, << >>), UndefinedValue, UndefinedValue >>}

BuildArgs == {<< Scalar("name"), Scalar("a"), UndefinedValue >>} \cup BadArgs

\* Dog.animal, a ToOne with optional(), Dog.toys, and a ManyToMany
QueryRelations ==
    {[key |-> "animal", kind |-> "ToOne", optional |-> FALSE, model |-> "animals",
      foreignKey |-> "animal_id"],
     [key |-> "friend", kind |-> "ToOne", optional |-> TRUE, model |-> "dogs2",
      foreignKey |-> "friend_id"],
     [key |-> "toys", kind |-> "ToMany", optional |-> FALSE, model |-> "toys",
      foreignKey |-> "dog_id"],
     [key |-> "tags", kind |-> "ManyToMany", optional |-> FALSE, model |-> "tags",
      foreignKey |-> ""]}

\* queries[q].where / andWhere / orWhere / whereNot / andWhereNot / orWhereNot
\* (...args)
WhereBuild(op, q, args) ==
    /\ Len(queries) <= MaxBuilds
    /\ LET r == ParseWhere(args[1], args[2], args[3])
           w == IF op \in {"whereNot", "andWhereNot", "orWhereNot"}
                THEN WhereNot(r.where) ELSE r.where
           c == QueryClone(queries[q])
           joined == IF c.where = NoWhere THEN w
                     ELSE IF op \in {"orWhere", "orWhereNot"} THEN WhereOr(c.where, w)
                     ELSE WhereAnd(c.where, w)
       IN  IF Thrown(r) THEN Raises(op, r.error)
           ELSE Returns(op, [c EXCEPT !.where = joined],
                        Slice(queries[q].join, joinLists),
                        Slice(queries[q].postFetch, hookLists))
    /\ UNCHANGED << fetching, statements, hookLog, modelVars, serviceVars, whereVars, relationVars >>

\* the `_join` arrays after c._join.push(join)
Pushed(ref, heap, item) == [heap EXCEPT ![ref] = Append(@, item)]

\* queries[q].join / leftJoin / rightJoin (model, ...args)
JoinBuild(op, q, model, args) ==
    /\ Len(queries) <= MaxBuilds
    /\ LET r == ParseWhere(args[1], args[2], args[3])
           c == QueryClone(queries[q])
           type == CASE op = "leftJoin" -> "Left" [] op = "rightJoin" -> "Right"
                     [] OTHER -> "Inner"
       IN  IF Thrown(r) THEN Raises(op, r.error)
           ELSE Returns(op, c,
                        Pushed(c.join, Slice(queries[q].join, joinLists),
                               Join(model, r.where, type)),
                        Slice(queries[q].postFetch, hookLists))
    /\ UNCHANGED << fetching, statements, hookLog, modelVars, serviceVars, whereVars, relationVars >>

\* queries[q].limit(limit, offset)
LimitBuild(q, limit, offset) ==
    /\ Len(queries) <= MaxBuilds
    /\ Returns("limit",
               [QueryClone(queries[q]) EXCEPT
                   !.limit = [set |-> TRUE, limit |-> limit, offset |-> offset]],
               Slice(queries[q].join, joinLists),
               Slice(queries[q].postFetch, hookLists))
    /\ UNCHANGED << fetching, statements, hookLog, modelVars, serviceVars, whereVars, relationVars >>

\* queries[q].with(relation), which is relation.apply(queries[q]): a ToOne
\* joins its table (join, or leftJoin when optional) and pushes its hook on the
\* new query's postFetch, a ToMany clones and pushes its hook, a ManyToMany
\* has the apply of RelationBase, which raises. The join condition names the
\* foreign key by {column, model: query.model}, which columnToString resolves
\* to the owner's table
WithBuild(q, relation) ==
    /\ Len(queries) <= MaxBuilds
    /\ LET c == QueryClone(queries[q])
           on == ParseWhere(Mapping(<< "id" >>, << Selector(relation.foreignKey, Table) >>),
                            UndefinedValue, UndefinedValue)
           joins == Slice(queries[q].join, joinLists)
           hooks == Pushed(c.postFetch, Slice(queries[q].postFetch, hookLists),
                           relation.key)
       IN  CASE relation.kind = "ManyToMany" -> Raises("with", "notImplemented")
             [] relation.kind = "ToMany" -> Returns("with", c, joins, hooks)
             [] OTHER ->
                  Returns("with", c,
                          Pushed(c.join, joins,
                                 Join(relation.model, on.where,
                                      IF relation.optional THEN "Left" ELSE "Inner")),
                          hooks)
    /\ UNCHANGED << fetching, statements, hookLog, modelVars, serviceVars, whereVars, relationVars >>

InitQuery == Init /\ cls = "Animal"

NextQuery ==
    \/ \E op \in WhereOps, q \in 1..Len(queries), args \in BuildArgs :
          WhereBuild(op, q, args)
    \/ \E op \in JoinOps, q \in 1..Len(queries), args \in BuildArgs :
          JoinBuild(op, q, "toys", args)
    \/ \E q \in 1..Len(queries), offset \in {0, 2} : LimitBuild(q, 1, offset)
    \/ \E q \in 1..Len(queries), relation \in QueryRelations : WithBuild(q, relation)

SpecQuery == InitQuery /\ [][NextQuery]_vars


\* ---- fetch ------------------------------------------------------------------
\* how many rows a select returns at most
MaxRows == 2

\* Model.fromRows that keeps the rows without a primary key
FromRows_KeepAll(rows) == [k \in 1..Len(rows) |-> [id |-> rows[k]]]

\* Model.fromRows(rows, namespace): rows.flatMap(row => fromRow(row[namespace])),
\* where fromRow gives undefined for a row whose primary key is null.  A row is
\* written as the primary key it has under the alias of the query's table.
RECURSIVE FromRows(_)
FromRows(rows) ==
    IF Len(rows) = 0 THEN << >>
    ELSE (IF Head(rows) = NullElement THEN << >> ELSE << [id |-> Head(rows)] >>)
            \o FromRows(Tail(rows))

\* queries[q].fetch() up to its first await: getSQL() and Database.select
Fetch(q) ==
    /\ fetching.pc \in {"idle", "done", "failed"}
    /\ LET g == SelectGetSQL(queries[q], joinLists[queries[q].join])
       IN  statements' = << [by |-> "fetch", sql |-> g.sql, params |-> g.params] >>
    /\ fetching' = [NoFetch EXCEPT !.pc = "select", !.query = q]
    /\ hookLog' = << >>
    /\ UNCHANGED << queries, joinLists, hookLists, lastBuild, modelVars, serviceVars, whereVars, relationVars >>

\* Database.select settles: with rows, of which fromRows makes the models, or
\* with an error, which ends the fetch
SelectSettles(rows, ok) ==
    /\ fetching.pc = "select"
    /\ ok \/ rows = << >>
    /\ fetching' = IF ok
                   THEN [fetching EXCEPT !.pc = "hooks", !.rows = rows,
                                         !.models = FromRows(rows), !.next = 1]
                   ELSE [fetching EXCEPT !.pc = "failed", !.error = "select"]
    /\ UNCHANGED << queries, joinLists, hookLists, lastBuild, statements, hookLog,
                    modelVars, serviceVars, whereVars, relationVars >>

\* for (const postFetch of this.postFetch): the next hook of the array is
\* called with the models and the rows.  The hook of a ToMany loads its
\* relation with a select of its own when there are models.
HookStart ==
    /\ fetching.pc = "hooks"
    /\ fetching.next <= Len(hookLists[queries[fetching.query].postFetch])
    /\ LET hook == hookLists[queries[fetching.query].postFetch][fetching.next]
           relation == CHOOSE r \in QueryRelations : r.key = hook
           ids == [k \in 1..Len(fetching.models) |-> fetching.models[k].id]
           first == SelectSeq([k \in 1..Len(ids) |-> k],
                              LAMBDA k : \A j \in 1..(k - 1) : ids[j] # ids[k])
           unique == [k \in 1..Len(first) |-> ids[first[k]]]
           load == GetSQL(WhereEqual(Scalar(relation.foreignKey), List(unique),
                                     UndefinedValue), relation.model)
       IN  /\ hookLog' = Append(hookLog, [hook |-> hook, event |-> "start",
                                           models |-> fetching.models,
                                           rows |-> fetching.rows])
           /\ statements' =
                 IF relation.kind = "ToMany" /\ Len(unique) # 0
                 THEN Append(statements,
                             [by |-> hook,
                              sql |-> "SELECT " \o GetDefaultSelect(relation.model)
                                         \o " FROM " \o EscapeId(relation.model)
                                         \o " WHERE " \o load.sql,
                              params |-> load.params])
                 ELSE statements
    /\ fetching' = [fetching EXCEPT !.pc = "inHook"]
    /\ UNCHANGED << queries, joinLists, hookLists, lastBuild, modelVars, serviceVars, whereVars, relationVars >>

\* await postFetch(models, rows) settles: the loop goes on, or the rejection
\* leaves fetch()
HookSettles(ok) ==
    /\ fetching.pc = "inHook"
    /\ LET hook == hookLists[queries[fetching.query].postFetch][fetching.next]
       IN  hookLog' = Append(hookLog, [hook |-> hook,
                                       event |-> IF ok THEN "end" ELSE "failed",
                                       models |-> fetching.models,
                                       rows |-> fetching.rows])
    /\ fetching' = IF ok
                   THEN [fetching EXCEPT !.pc = "hooks", !.next = @ + 1]
                   ELSE [fetching EXCEPT !.pc = "failed", !.error = "hook"]
    /\ UNCHANGED << queries, joinLists, hookLists, lastBuild, statements,
                    modelVars, serviceVars, whereVars, relationVars >>

\* return models
FetchReturns ==
    /\ fetching.pc = "hooks"
    /\ fetching.next > Len(hookLists[queries[fetching.query].postFetch])
    /\ fetching' = [fetching EXCEPT !.pc = "done"]
    /\ UNCHANGED << queries, joinLists, hookLists, lastBuild, statements, hookLog,
                    modelVars, serviceVars, whereVars, relationVars >>

NextFetch ==
    \/ \E q \in 1..Len(queries), relation \in QueryRelations : WithBuild(q, relation)
    \/ \E q \in 1..Len(queries) : Fetch(q)
    \/ \E n \in 0..MaxRows : \E rows \in [1..n -> {"a", "b", NullElement}] :
          \E ok \in BOOLEAN : SelectSettles(rows, ok)
    \/ HookStart
    \/ \E ok \in BOOLEAN : HookSettles(ok)
    \/ FetchReturns

SpecFetch == InitQuery /\ [][NextFetch]_vars

\* ---- C12 --------------------------------------------------------------------
\* what can be seen of query k: its statement and parameters, its joins and
\* its post-fetch hooks
Observed(k) ==
    [sql |-> SelectGetSQL(queries[k], joinLists[queries[k].join]),
     joins |-> joinLists[queries[k].join],
     hooks |-> hookLists[queries[k].postFetch]]

\* the arrays the queries before the newest one refer to
ArraysInUse ==
    [joins |-> {queries[k].join : k \in 1..Len(queries)},
     hooks |-> {queries[k].postFetch : k \in 1..Len(queries)}]

\* C12: every builder method (where, andWhere, orWhere, whereNot,
\* andWhereNot, orWhereNot, join, leftJoin, rightJoin, limit, with) returns a
\* new query and leaves the receiver as it was: statement, parameters, join
\* list and hook list of every query that existed before the call, the
\* receiver and its earlier copies alike, are the same after it, and the new
\* query shares no array with them.
C12_BuildersReturnCopies ==
    [][/\ \A k \in 1..Len(queries) : Observed(k)' = Observed(k)
       /\ lastBuild'.error = "none" =>
             /\ Len(queries') = Len(queries) + 1
             /\ queries'[Len(queries')].join \notin ArraysInUse.joins
             /\ queries'[Len(queries')].postFetch \notin ArraysInUse.hooks]_vars

\* a join was added to a copy of the first query and a relation to a copy of
\* that copy: three queries with none, one and two joins
C12_Witness ==
    /\ Len(queries) = 3
    /\ Len(joinLists[queries[1].join]) = 0
    /\ Len(joinLists[queries[2].join]) = 1
    /\ Len(joinLists[queries[3].join]) = 2
    /\ Len(hookLists[queries[2].postFetch]) = 0
    /\ Len(hookLists[queries[3].postFetch]) = 1

\* ---- C19 --------------------------------------------------------------------
\* the call raised and nothing else happened: no query was made or changed
\* and no statement was sent
OnlyRaised ==
    /\ lastBuild'.error \in {"invalidWhere", "emptyWhere"}
    /\ UNCHANGED << queries, joinLists, hookLists, statements, fetching >>

\* C19: where, andWhere, orWhere, whereNot, andWhereNot, orWhereNot, join,
\* leftJoin and rightJoin raise at once when given a column without a value, an
\* empty array of filters or an empty mapping: no query is returned, no
\* statement reaches storage, and the receiver is as it was.
C19_MalformedFilterRaises ==
    [][\A q \in 1..Len(queries), args \in BadArgs :
          /\ \A op \in WhereOps : WhereBuild(op, q, args) => OnlyRaised
          /\ \A op \in JoinOps : JoinBuild(op, q, "toys", args) => OnlyRaised]_vars

\* leftJoin was given an empty filter on a query that has a copy
C19_Witness ==
    /\ lastBuild = [op |-> "leftJoin", error |-> "emptyWhere"]
    /\ Len(queries) = 2
    /\ queries[2].where # NoWhere

\* ---- C20 --------------------------------------------------------------------
\* the hooks registered on the query that is being fetched
Registered == hookLists[queries[fetching.query].postFetch]

\* the primary keys of the rows that have one
KeysOfRows == SelectSeq(fetching.rows, LAMBDA row : row # NullElement)

\* C20: fetch() sends one statement for the query itself, first of all; makes
\* one entity per row whose primary key under the table's alias is not null,
\* in the order of the rows; then calls every registered hook once, in the
\* order of registration, each with the entities and the rows; a hook is not
\* called before the one before it has completed, and a hook that fails ends
\* the fetch.
C20_Fetch ==
    fetching.pc # "idle" =>
       /\ Len(SelectSeq(statements, LAMBDA st : st.by = "fetch")) = 1
       /\ statements[1].by = "fetch"
       /\ fetching.pc \in {"hooks", "inHook", "done"} \/ fetching.error = "hook"
             => /\ Len(fetching.models) = Len(KeysOfRows)
                /\ \A k \in 1..Len(KeysOfRows) : fetching.models[k].id = KeysOfRows[k]
       /\ fetching.pc = "select" \/ fetching.error = "select" => hookLog = << >>
       /\ \A k \in 1..Len(hookLog) :
             /\ (k + 1) \div 2 <= Len(Registered)
             /\ hookLog[k].hook = Registered[(k + 1) \div 2]
             /\ hookLog[k].event = "start" <=> k % 2 = 1
             /\ hookLog[k].models = fetching.models
             /\ hookLog[k].rows = fetching.rows
             /\ hookLog[k].event = "failed" => k = Len(hookLog) /\ fetching.pc = "failed"
       /\ fetching.pc = "done" =>
             /\ Len(hookLog) = 2 * Len(Registered)
             /\ \A k \in 1..Len(hookLog) : hookLog[k].event # "failed"
       /\ fetching.error = "hook" => hookLog[Len(hookLog)].event = "failed"

\* a fetch with two hooks has returned; a row without primary key was dropped
C20_Witness ==
    /\ fetching.pc = "done"
    /\ Len(hookLog) = 4
    /\ Len(fetching.rows) = 2
    /\ Len(fetching.models) = 1

\* the first of two hooks failed and the second was never called
C20_AbortWitness ==
    /\ fetching.error = "hook"
    /\ Len(Registered) = 2
    /\ Len(hookLog) = 2

\* ---- relations: the loaders of ToOne, ToMany and ManyToOneRelation ----------
\* A relation chain is what `a.with(b.with(c))` builds: chain[j] is declared on
\* the entity type of level j - 1 and targets the entity type of level j, and
\* chain[j + 1] is the one relation in the `_withRelations` of chain[j].
\* Level 0 is the type a fetch selects or the type of the owners given to load.
MaxDepth == 2

\* the bare ToOne / ToMany / ManyToOneRelation, and ToOne.optional()
Relation(kind) == [kind |-> kind, optional |-> FALSE]
Optional(r) == [r EXCEPT !.optional = TRUE]

TableName(level) == "t" \o ToString(level)

\* A stored row of a level: its primary key, `up`: the foreign key column a
\* ToMany of the level before names, `down`: the foreign key column a ToOne or
\* ManyToOneRelation to the next level names.
Stored(id, up, down) == [id |-> id, up |-> up, down |-> down]
NoRow == Stored(NullElement, NullElement, NullElement)

\* the value of this[relation.modelKey]: undefined, null, an entity or an array
Unset == [state |-> "undefined", items |-> << >>]
NullRelation == [state |-> "null", items |-> << >>]
One(model) == [state |-> "one", items |-> << model >>]
Many(models) == [state |-> "many", items |-> models]

\* Model.fromRows(rows, namespace): one new instance per row whose primary key
\* is not null, in row order; inst tells the instances of one call apart
FromRowsOf(rows, namespace) ==
    LET kept == SelectSeq(rows, LAMBDA row : row[namespace].id # NullElement)
    IN  [k \in DOMAIN kept |->
            [id |-> kept[k][namespace].id, up |-> kept[k][namespace].up,
             down |-> kept[k][namespace].down, inst |-> k, rel |-> Unset]]

\* What storage answers to a statement: the rows of the level's table whose
\* column is one of ids (all rows with no filter), in storage order, each with
\* the joined row of the next level whose primary key is the row's `down`.  An
\* inner join drops the rows with no joined row when storage is strict;
\* Database.select is whatever the application installs, and the mock of
\* 'can throws non optional to one relation' answers such a row with nulls.
Select(tables, strict, stmt) ==
    LET table == tables[stmt.level + 1]
        base == IF stmt.column = "" THEN table
                ELSE SelectSeq(table, LAMBDA e :
                        /\ e[stmt.column] # NullElement
                        /\ \E k \in DOMAIN stmt.ids : stmt.ids[k] = e[stmt.column])
        Target(e) ==
            LET hits == IF stmt.join = "none" THEN << >>
                        ELSE SelectSeq(tables[stmt.level + 2], LAMBDA t : t.id = e.down)
            IN  IF hits = << >> THEN NoRow ELSE hits[1]
        rows == [k \in DOMAIN base |-> [base |-> base[k], joined |-> Target(base[k])]]
    IN  SelectSeq(rows, LAMBDA row :
            stmt.join # "inner" \/ ~strict \/ row.joined.id # NullElement)

\* a statement in the log of statements, with the rows storage answered
Answered(stmt, rows) ==
    [level |-> stmt.level, column |-> stmt.column, ids |-> stmt.ids,
     join |-> stmt.join, rows |-> rows]

\* uniqueArray(array): the first occurrence of every value, in order
UniqueArray_Identity(array) == array
UniqueArray(array) ==
    LET first == SelectSeq([k \in DOMAIN array |-> k],
                           LAMBDA k : \A j \in 1..(k - 1) : array[j] # array[k])
    IN  [i \in DOMAIN first |-> array[first[i]]]

Failure(kind) == [NoError EXCEPT !.kind = kind]
NoMatch_Unnamed(target, owner, key) == Failure("noMatch")
NoMatch(target, owner, key) ==
    [kind |-> "noMatch", target |-> target, owner |-> owner, key |-> key]

\* model.setRelation(relation, value) of Model: `value.existsInDatabase` is read
\* first, which raises a TypeError on null and is undefined on an array, so that
\* the 'not yet saved' Error is thrown; an entity made by fromRows is saved, and
\* is assigned together with the foreign key
SetRelationTo(model, value) ==
    CASE value.state = "null" -> [error |-> Failure("TypeError"), owner |-> model]
      [] value.state = "many" -> [error |-> Failure("notSaved"), owner |-> model]
      [] OTHER -> [error |-> NoError,
                   owner |-> [model EXCEPT !.rel = value, !.down = value.items[1].id]]

\* for (const model of models) { ... }: the loop stops at the first throw
ForEach(models, Set(_)) ==
    LET done == [k \in DOMAIN models |-> Set(models[k])]
        bad == {k \in DOMAIN models : done[k].error # NoError}
    IN  IF bad = {}
        THEN [error |-> NoError, owners |-> [k \in DOMAIN models |-> done[k].owner]]
        ELSE [error |-> done[CHOOSE k \in bad : \A j \in bad : k <= j].error,
              owners |-> models]

\* ToOne.setRelations(loadedRelations, models) of chain[j]
ToOneSetRelations(j, r, loadedRelations, models) ==
    LET Set(model) ==
            IF r.optional /\ model.down = NullElement
            THEN SetRelationTo(model, NullRelation)
            ELSE LET found == SelectSeq(loadedRelations, LAMBDA m : m.id = model.down)
                 IN  IF found = << >>
                     THEN [error |-> NoMatch(TableName(j), TableName(j - 1), model.id),
                           owner |-> model]
                     ELSE SetRelationTo(model, One(found[1]))
    IN  ForEach(models, Set)

\* ToMany.setRelations(loadedRelations, models)
ToManySetRelations(loadedRelations, models) ==
    LET Set(model) ==
            SetRelationTo(model, Many(SelectSeq(loadedRelations,
                                                LAMBDA r : r.up = model.id)))
    IN  ForEach(models, Set)

\* what a loader did: the statements it issued, the load calls it made, the
\* Error it threw, and the entities it returned (none when it threw)
Result(stmts, calls, error, models) ==
    [stmts |-> stmts, calls |-> calls, error |-> error,
     models |-> IF error = NoError THEN models ELSE << >>]

\* ToOne.apply: query.leftJoin when the relation is optional, query.join
\* (an inner join) when it is not
JoinType_None(r) == "none"
JoinType(r) == IF r.optional THEN "left" ELSE "inner"

\* `if (ids.length === 0)` of ToOne.load and ToMany.load, and
\* `if (modelsA.length === 0)` of ManyToOneRelation.load
NothingToLoad_Never(array) == FALSE
NothingToLoad(array) == Len(array) = 0

RECURSIVE Load(_, _, _)
RECURSIVE RelationFetch(_, _, _, _)

\* new SelectQuery(model of `level`), filtered by where(column, ids) if a
\* loader made it, .with(chain[level + 1]) if there is one, .fetch(): a ToOne
\* joins and its hook materialises the joined rows, loads its own nested
\* relation over them and then sets the relation; the hook of a ToMany is its
\* load
RelationFetch(in, level, column, ids) ==
    LET nested == level < Len(in.chain)
        r == in.chain[level + 1]
        join == IF nested /\ r.kind = "ToOne" THEN JoinType(r) ELSE "none"
        sent == [level |-> level, column |-> column, ids |-> ids, join |-> join]
        rows == Select(in.tables, in.strict, sent)
        stmt == Answered(sent, rows)
        models == FromRowsOf(rows, "base")
    IN  IF ~nested THEN Result(<< stmt >>, << >>, NoError, models)
        ELSE IF r.kind = "ToMany"
        THEN LET l == Load(in, level + 1, models)
             IN  Result(<< stmt >> \o l.stmts, l.calls, l.error, l.models)
        ELSE LET loadedRelations == FromRowsOf(rows, "joined")
                 more == IF level + 1 < Len(in.chain)
                         THEN Load(in, level + 2, loadedRelations)
                         ELSE Result(<< >>, << >>, NoError, loadedRelations)
                 set == ToOneSetRelations(level + 1, r, more.models, models)
             IN  IF more.error # NoError
                 THEN Result(<< stmt >> \o more.stmts, more.calls, more.error, << >>)
                 ELSE Result(<< stmt >> \o more.stmts, more.calls, set.error, set.owners)

\* chain[j].load(models)
Load(in, j, models) ==
    LET r == in.chain[j]
        call == [relation |-> j, owners |-> Len(models)]
        ids == IF r.kind = "ToMany"
               THEN UniqueArray([k \in DOMAIN models |-> models[k].id])
               ELSE UniqueArray([k \in DOMAIN models |-> models[k].down])
        f == RelationFetch(in, j, IF r.kind = "ToMany" THEN "up" ELSE "id", ids)
        set == IF r.kind = "ToMany"
               THEN ToManySetRelations(f.models, models)
               ELSE ToOneSetRelations(j, r, f.models, models)
        \* ManyToOneRelation.load(modelsA): no de-duplication, no nested relations
        sent == [level |-> j, column |-> "id",
                 ids |-> [k \in DOMAIN models |-> models[k].down], join |-> "none"]
        stmt == Answered(sent, Select(in.tables, in.strict, sent))
        modelsB == FromRowsOf(stmt.rows, "base")
        SetOne(model) ==
            LET found == SelectSeq(modelsB, LAMBDA m : m.id = model.down)
            IN  IF found = << >>
                THEN [error |-> Failure("noMatchManyToOne"), owner |-> model]
                ELSE SetRelationTo(model, One(found[1]))
        one == ForEach(models, SetOne)
    IN  IF r.kind = "ManyToOne"
        THEN IF NothingToLoad(models) THEN Result(<< >>, << call >>, NoError, << >>)
             ELSE Result(<< stmt >>, << call >>, one.error, one.owners)
        ELSE IF NothingToLoad(ids) THEN Result(<< >>, << call >>, NoError, models)
        ELSE IF f.error # NoError
        THEN Result(f.stmts, << call >> \o f.calls, f.error, << >>)
        ELSE Result(f.stmts, << call >> \o f.calls, set.error, set.owners)

\* the chains, and the storage contents, the loaders are run on
Direct == {Relation("ToOne"), Optional(Relation("ToOne")), Relation("ToMany")}
Chains ==
    {<< Relation("ManyToOne") >>}
        \cup UNION {[1..n -> Direct] : n \in 1..MaxDepth}
UpMaps == {[a |-> "a", b |-> "b"], [a |-> "a", b |-> "a"]}
DownMaps ==
    {[a |-> "a", b |-> "b"], [a |-> "a", b |-> "a"],
     [a |-> NullElement, b |-> "b"], [a |-> NullElement, b |-> NullElement]}
NoMap == [a |-> NullElement, b |-> NullElement]
TablesOf(chain, level) ==
    LET ups == IF level >= 1 /\ chain[level].kind = "ToMany" THEN UpMaps ELSE {NoMap}
        downs == IF level < Len(chain) /\ chain[level + 1].kind # "ToMany"
                 THEN DownMaps ELSE {NoMap}
        present == {<< >>, << "a" >>, << "b" >>, << "a", "b" >>, << "b", "a" >>}
    IN  {[k \in DOMAIN p |-> Stored(p[k], up[p[k]], down[p[k]])] :
            p \in present, up \in ups, down \in downs}
RECURSIVE TablesFrom(_, _)
TablesFrom(chain, level) ==
    IF level > Len(chain) THEN {<< >>}
    ELSE {<< t >> \o rest : t \in TablesOf(chain, level), rest \in TablesFrom(chain, level + 1)}
Inputs ==
    UNION {[chain : {chain}, strict : BOOLEAN, tables : TablesFrom(chain, 0)] :
           chain \in Chains}

Outcome(mode, in, owners, result) ==
    [mode |-> mode, chain |-> in.chain, tables |-> in.tables, strict |-> in.strict,
     owners |-> owners, stmts |-> result.stmts, calls |-> result.calls,
     error |-> result.error, models |-> result.models]

\* await new SelectQuery(Level0).with(chain[1]).fetch()
WithFetch(in) ==
    /\ loading.mode = "none"
    /\ in.chain[1].kind # "ManyToOne"
    /\ loading' = Outcome("with", in, << >>, RelationFetch(in, 0, "", << >>))
    /\ UNCHANGED << links, related, linkCall, lsteps, modelVars, serviceVars, whereVars, builderVars >>

\* await chain[1].load(models), with the entities of level 0 storage holds
LoadCall(in) ==
    /\ loading.mode = "none"
    /\ LET models == FromRowsOf(Select(in.tables, TRUE,
                        [level |-> 0, column |-> "", ids |-> << >>, join |-> "none"]),
                        "base")
       IN  loading' = Outcome("load", in, models, Load(in, 1, models))
    /\ UNCHANGED << links, related, linkCall, lsteps, modelVars, serviceVars, whereVars, builderVars >>

NextLoad ==
    /\ loading.mode = "none"
    /\ \E in \in Inputs : WithFetch(in) \/ LoadCall(in)

SpecLoad == InitQuery /\ [][NextLoad]_vars

\* ---- claims on the loaders ----------------------------------------------------
\* the statements of a level, the foreign keys of the owners given to load, the
\* primary keys storage holds at a level
StatementsOf(level) == SelectSeq(loading.stmts, LAMBDA s : s.level = level)
OwnerKeys == {loading.owners[k].down : k \in DOMAIN loading.owners}
StoredIds(level) ==
    {loading.tables[level + 1][k].id : k \in DOMAIN loading.tables[level + 1]}

\* C21: given an empty list of owners, the load of a relation of any kind, with
\* or without a nested relation, issues no statement and returns an empty
\* result; and no load call inside a fetch or load that was given no owner
\* issued a statement for its level
C21_EmptyLoad ==
    /\ (loading.mode = "load" /\ loading.owners = << >>) =>
            /\ loading.stmts = << >>
            /\ loading.error = NoError
            /\ loading.models = << >>
    /\ \A k \in DOMAIN loading.calls :
            loading.calls[k].owners = 0 => StatementsOf(loading.calls[k].relation) = << >>

C21_Witness ==
    /\ loading.mode = "load"
    /\ loading.owners = << >>
    /\ Len(loading.chain) = 2
    /\ loading.tables[2] # << >>
    /\ loading.stmts = << >>

\* C22: the load of a ToOne for N >= 1 owners issues exactly one statement for
\* the relation, constrained on the primary key to the owners' foreign keys
\* with every value once, and when it completes every owner references the
\* target whose primary key is its foreign key, owners with equal foreign keys
\* the same instance
C22_BatchLoad ==
    (loading.mode = "load" /\ loading.chain[1].kind = "ToOne" /\ Len(loading.owners) >= 1) =>
        LET own == StatementsOf(1)
            o == loading.owners
            m == loading.models
        IN  /\ Len(own) = 1
            /\ own[1].column = "id"
            /\ {own[1].ids[k] : k \in DOMAIN own[1].ids} = OwnerKeys
            /\ Len(own[1].ids) = Cardinality(OwnerKeys)
            /\ loading.error = NoError =>
                /\ Len(m) = Len(o)
                /\ \A k \in DOMAIN o :
                    /\ m[k].id = o[k].id
                    /\ m[k].rel.state = "one"
                    /\ m[k].rel.items[1].id = o[k].down
                /\ \A i, j \in DOMAIN o :
                    o[i].down = o[j].down =>
                        m[i].rel.items[1].inst = m[j].rel.items[1].inst

C22_Witness ==
    /\ loading.mode = "load"
    /\ loading.chain[1].kind = "ToOne"
    /\ Len(loading.owners) = 2
    /\ Cardinality(OwnerKeys) = 1
    /\ loading.error = NoError
    /\ Len(loading.stmts[1].ids) = 1
    /\ loading.models[1].rel.items[1].inst = loading.models[2].rel.items[1].inst

\* the owners of the first relation with no fetched target: of the owners
\* given to load, those whose foreign key is no primary key in the rows of the
\* relation's statement; of the rows of a fetch, those whose foreign key is no
\* primary key among the joined rows
Unmatched ==
    LET rows == IF loading.stmts = << >> THEN << >> ELSE loading.stmts[1].rows
        alias == IF loading.mode = "load" THEN "base" ELSE "joined"
        fetched == {rows[k][alias].id : k \in DOMAIN rows} \ {NullElement}
    IN  IF loading.mode = "load"
        THEN {loading.owners[k].id : k \in {j \in DOMAIN loading.owners :
                                            loading.owners[j].down \notin fetched}}
        ELSE {rows[k].base.id : k \in {j \in DOMAIN rows : rows[j].base.down \notin fetched}}

\* the fetch or load failed at once with the Error that names the target
\* table, the owner table and the primary key of an owner without target
FailsNamed ==
    /\ \E key \in Unmatched :
            loading.error = [kind |-> "noMatch", target |-> "t1", owner |-> "t0", key |-> key]
    /\ loading.models = << >>
    /\ Len(loading.stmts) = 1

\* C23, as stated, on chains of required ToOne relations: an owner of the
\* first relation without a fetched target makes the fetch or load fail after
\* the row fetch, with no further statement, with the Error that names both
\* tables and the owner's primary key, and nothing is returned
C23_FailsAtOnce ==
    (/\ loading.mode # "none"
     /\ \A j \in DOMAIN loading.chain : loading.chain[j] = Relation("ToOne")
     /\ Unmatched # {}) => FailsNamed

\* C23, amended: the same for a required ToOne that was given no nested
\* relation
C23_FailsAtOnceWithoutNested ==
    (/\ loading.mode # "none"
     /\ loading.chain = << Relation("ToOne") >>
     /\ Unmatched # {}) => FailsNamed

C23_Witness ==
    /\ loading.mode = "with"
    /\ loading.chain = << Relation("ToOne") >>
    /\ Unmatched # {}
    /\ loading.error.kind = "noMatch"
    /\ loading.error.key \in Unmatched

C23_LoadWitness ==
    /\ loading.mode = "load"
    /\ loading.chain = << Relation("ToOne") >>
    /\ Len(loading.owners) = 2
    /\ Cardinality(Unmatched) = 1
    /\ loading.error.kind = "noMatch"

\* C24: with an optional ToOne and nothing nested, the fetch or load raises
\* nothing, an owner whose foreign key is null has the relation loaded as null,
\* and an owner with a stored target has that target
C24_OptionalSucceeds ==
    (loading.mode # "none" /\ loading.chain = << Optional(Relation("ToOne")) >>) =>
        /\ loading.error = NoError
        /\ \A k \in DOMAIN loading.models :
            LET model == loading.models[k]
            IN  /\ model.down = NullElement => model.rel = NullRelation
                /\ model.down \in StoredIds(1) =>
                        /\ model.rel.state = "one"
                        /\ model.rel.items[1].id = model.down

\* the number of load calls that were given at least one owner
CallsWithOwners ==
    Cardinality({k \in DOMAIN loading.calls : loading.calls[k].owners >= 1})

\* chain[j] is applied to a query as a join: a ToOne given to with() of the
\* fetched query, or nested in a relation that is batch-loaded
RECURSIVE Joined(_)
Joined(j) ==
    /\ loading.chain[j].kind = "ToOne"
    /\ j > 1 => ~Joined(j - 1)

\* C25: a fetch with a chain of nested relations issues 1 + L statements, L
\* the number of load calls given at least one owner; there is at most one
\* load call and one statement per level whatever the number of rows; a joined
\* ToOne puts its join on the statement of its parent level and has no
\* statement of its own
C25_OneStatementPerLevel ==
    loading.mode = "with" =>
        /\ Len(loading.stmts) = 1 + CallsWithOwners
        /\ \A i, j \in DOMAIN loading.stmts :
                loading.stmts[i].level = loading.stmts[j].level => i = j
        /\ \A i, j \in DOMAIN loading.calls :
                loading.calls[i].relation = loading.calls[j].relation => i = j
        /\ \A j \in DOMAIN loading.chain :
                Joined(j) =>
                    /\ StatementsOf(j) = << >>
                    /\ \A k \in DOMAIN loading.calls : loading.calls[k].relation # j
                    /\ \A s \in DOMAIN loading.stmts :
                          loading.stmts[s].level = j - 1 =>
                              loading.stmts[s].join =
                                  IF loading.chain[j].optional THEN "left" ELSE "inner"

C25_Witness ==
    /\ loading.mode = "with"
    /\ Len(loading.stmts) = 3
    /\ Len(loading.tables[1]) = 2
    /\ Len(loading.tables[2]) = 2

C25_JoinWitness ==
    /\ loading.mode = "with"
    /\ loading.chain[1].kind = "ToMany"
    /\ Len(loading.chain) = 2
    /\ loading.chain[2].kind = "ToOne"
    /\ Len(loading.tables[1]) = 2
    /\ Len(loading.stmts) = 2
    /\ loading.stmts[2].join # "none"

\* C26: after a ToMany with nothing nested is loaded, by with() or by load,
\* every owner's relation is the list of the stored targets whose foreign key
\* is the owner's primary key, in storage order (empty when there is none),
\* and the owners' own statement has no join
C26_ToManyLists ==
    (loading.mode # "none" /\ loading.chain = << Relation("ToMany") >>) =>
        LET owners == IF loading.mode = "load" THEN loading.owners
                      ELSE loading.tables[1]
            targets(id) == SelectSeq(loading.tables[2], LAMBDA t : t.up = id)
        IN  /\ loading.error = NoError
            /\ Len(loading.models) = Len(owners)
            /\ \A k \in DOMAIN loading.models :
                LET model == loading.models[k]
                IN  /\ model.id = owners[k].id
                    /\ model.rel.state = "many"
                    /\ [i \in DOMAIN model.rel.items |-> model.rel.items[i].id]
                         = [i \in DOMAIN targets(model.id) |-> targets(model.id)[i].id]
            /\ \A s \in DOMAIN loading.stmts : loading.stmts[s].join = "none"

\* ---- relations: ManyToManyRelation ------------------------------------------
\* One owner and its rows in the link table.  A call that issues a statement
\* takes two steps: the statement reaches storage, which applies it and
\* answers, and the call resumes after its await.  The application makes one
\* call at a time; another actor writes to the link table at any moment.
MaxLinkCalls == 4
MaxLinks == 3
MaxTargets == 2

\* the targets: saved entities by their primary key, and an entity that has
\* none (getPrimaryKey() is null)
LinkTargets == {"x", "y"}
LinkArgs == UNION {[1..n -> LinkTargets \cup {NullElement}] : n \in 0..MaxTargets}

\* `if (!modelAId)`, `if (!id)` of link
NotSavedYet_Never(id) == FALSE
NotSavedYet(id) == id = NullElement

\* the link rows DELETE ... WHERE linkKeyB IN (ids) leaves
Remaining(rows, ids) == SelectSeq(rows, LAMBDA t : \A k \in DOMAIN ids : ids[k] # t)

\* arr.filter(model => !idMap.includes(model.getPrimaryKey())) of unlink
Unlinked_Nothing(arr, ids) == arr
Unlinked(arr, ids) == SelectSeq(arr, LAMBDA t : \A k \in DOMAIN ids : ids[k] # t)

\* `affectedRows == modelsB.length` of link and unlink
Trusted_Always(affectedRows, n) == TRUE
Trusted(affectedRows, n) == affectedRows = n

\* the link rows after the mismatch branch of link and unlink, which warns and
\* throws ("TODO: Manually correct by doing a query"): no statement puts back
\* what the call's statement changed
Uncorrected_Restored(rows, before) == before
Uncorrected(rows, before) == rows

\* modelA.setManyRelation(this, value): the array is assigned
SetManyRelationTo(owner, value) == [owner EXCEPT !.loaded = TRUE, !.list = value]

\* modelA.setManyRelation(this, []) of clear
AfterClear_Untouched(owner) == owner
AfterClear(owner) == SetManyRelationTo(owner, << >>)

\* a call starts: what it was given, the statements it issued, what storage
\* answered, and the owner and the link rows as they were
Started(op, pc, targets, stmts, affected, error, rows) ==
    [op |-> op, pc |-> pc, targets |-> targets, stmts |-> stmts, affected |-> affected,
     error |-> error, rows |-> rows, was |-> related, stored |-> links,
     others |-> FALSE]

\* the call resumes and ends, with an Error or without
Ended(error) == [linkCall EXCEPT !.pc = "idle", !.error = error]

\* await owner.save() of a new owner: it gets its primary key
OwnerSave ==
    /\ linkCall.pc = "idle"
    /\ related.id = NullElement
    /\ related' = [related EXCEPT !.id = "o"]
    /\ linkCall' = Started("save", "idle", << >>, 1, 1, "none", << >>)
    /\ UNCHANGED << links, lsteps, loading, modelVars, serviceVars, whereVars, builderVars >>

\* owner.setManyRelation(TestModel.friends, [])
SetManyRelation ==
    /\ linkCall.pc = "idle"
    /\ lsteps < MaxLinkCalls
    /\ lsteps' = lsteps + 1
    /\ related' = SetManyRelationTo(related, << >>)
    /\ linkCall' = Started("setManyRelation", "idle", << >>, 0, 0, "none", << >>)
    /\ UNCHANGED << links, loading, modelVars, serviceVars, whereVars, builderVars >>

\* relation.load(owner), up to its await: the SELECT on the link table
LoadStart ==
    /\ linkCall.pc = "idle"
    /\ lsteps < MaxLinkCalls
    /\ lsteps' = lsteps + 1
    /\ \/ linkCall' = Started("load", "awaiting", << >>, 1, 0, "none", links)
       \/ linkCall' = Started("load", "idle", << >>, 1, 0, "storage", << >>)
    /\ UNCHANGED << links, related, loading, modelVars, serviceVars, whereVars, builderVars >>

\* load resumes: fromRows, modelA.setManyRelation(this, modelsB)
LoadSettles ==
    /\ linkCall.pc = "awaiting"
    /\ linkCall.op = "load"
    /\ related' = SetManyRelationTo(related, linkCall.rows)
    /\ linkCall' = Ended("none")
    /\ UNCHANGED << links, lsteps, loading, modelVars, serviceVars, whereVars, builderVars >>

\* relation.link(owner, targets), up to its await: the checks of the primary
\* keys, then linkIds, which returns 0 at once for no targets and else issues
\* the INSERT; storage inserts the rows and reports how many, or rejects
LinkStart(targets) ==
    /\ linkCall.pc = "idle"
    /\ lsteps < MaxLinkCalls
    /\ Len(links) + Len(targets) <= MaxLinks
    /\ lsteps' = lsteps + 1
    /\ IF NotSavedYet(related.id)
       THEN /\ linkCall' = Started("link", "idle", targets, 0, 0, "ownerNotSaved", << >>)
            /\ UNCHANGED links
       ELSE IF \E k \in DOMAIN targets : NotSavedYet(targets[k])
       THEN /\ linkCall' = Started("link", "idle", targets, 0, 0, "targetNotSaved", << >>)
            /\ UNCHANGED links
       ELSE IF targets = << >>
       THEN /\ linkCall' = Started("link", "idle", targets, 0, 0, "none", << >>)
            /\ UNCHANGED links
       ELSE \/ \E k \in 0..Len(targets) :
                /\ links' = links \o SubSeq(targets, 1, k)
                /\ linkCall' = Started("link", "awaiting", targets, 1, k, "none", << >>)
            \/ /\ linkCall' = Started("link", "idle", targets, 1, 0, "storage", << >>)
               /\ UNCHANGED links
    /\ UNCHANGED << related, loading, modelVars, serviceVars, whereVars, builderVars >>

\* link resumes: a loaded relation gets the targets pushed when the count is
\* the number of targets, and else the call throws
LinkSettles ==
    /\ linkCall.pc = "awaiting"
    /\ linkCall.op = "link"
    /\ IF ~related.loaded
       THEN linkCall' = Ended("none") /\ UNCHANGED << related, links >>
       ELSE IF Trusted(linkCall.affected, Len(linkCall.targets))
       THEN /\ related' = [related EXCEPT !.list = @ \o linkCall.targets]
            /\ linkCall' = Ended("none")
            /\ UNCHANGED links
       ELSE /\ linkCall' = Ended("fallback")
            /\ links' = Uncorrected(links, linkCall.stored)
            /\ UNCHANGED related
    /\ UNCHANGED << lsteps, loading, modelVars, serviceVars, whereVars, builderVars >>

\* relation.unlink(owner, ...targets), up to its await: the DELETE of the
\* owner's rows to these targets
UnlinkStart(targets) ==
    /\ linkCall.pc = "idle"
    /\ lsteps < MaxLinkCalls
    /\ targets # << >>
    /\ lsteps' = lsteps + 1
    /\ \/ /\ links' = Remaining(links, targets)
          /\ linkCall' = Started("unlink", "awaiting", targets, 1,
                                 Len(links) - Len(Remaining(links, targets)), "none", << >>)
       \/ /\ linkCall' = Started("unlink", "idle", targets, 1, 0, "storage", << >>)
          /\ UNCHANGED links
    /\ UNCHANGED << related, loading, modelVars, serviceVars, whereVars, builderVars >>

\* unlink resumes
UnlinkSettles ==
    /\ linkCall.pc = "awaiting"
    /\ linkCall.op = "unlink"
    /\ IF ~related.loaded
       THEN linkCall' = Ended("none") /\ UNCHANGED << related, links >>
       ELSE IF Trusted(linkCall.affected, Len(linkCall.targets))
       THEN /\ related' = SetManyRelationTo(related, Unlinked(related.list, linkCall.targets))
            /\ linkCall' = Ended("none")
            /\ UNCHANGED links
       ELSE /\ linkCall' = Ended("fallback")
            /\ links' = Uncorrected(links, linkCall.stored)
            /\ UNCHANGED related
    /\ UNCHANGED << lsteps, loading, modelVars, serviceVars, whereVars, builderVars >>

\* relation.clear(owner), up to the await of clearId: the DELETE of the owner's
\* rows
ClearStart ==
    /\ linkCall.pc = "idle"
    /\ lsteps < MaxLinkCalls
    /\ lsteps' = lsteps + 1
    /\ \/ /\ links' = << >>
          /\ linkCall' = Started("clear", "awaiting", << >>, 1, Len(links), "none", << >>)
       \/ /\ linkCall' = Started("clear", "idle", << >>, 1, 0, "storage", << >>)
          /\ UNCHANGED links
    /\ UNCHANGED << related, loading, modelVars, serviceVars, whereVars, builderVars >>

\* clear resumes
ClearSettles ==
    /\ linkCall.pc = "awaiting"
    /\ linkCall.op = "clear"
    /\ related' = AfterClear(related)
    /\ linkCall' = Ended("none")
    /\ UNCHANGED << links, lsteps, loading, modelVars, serviceVars, whereVars, builderVars >>

\* another actor links the owner to a target, or unlinks it from one
OtherLinks(t) ==
    /\ related.id # NullElement
    /\ lsteps < MaxLinkCalls
    /\ Len(links) < MaxLinks
    /\ lsteps' = lsteps + 1
    /\ links' = Append(links, t)
    /\ linkCall' = [linkCall EXCEPT !.others = TRUE]
    /\ UNCHANGED << related, loading, modelVars, serviceVars, whereVars, builderVars >>

OtherUnlinks(t) ==
    /\ lsteps < MaxLinkCalls
    /\ \E k \in DOMAIN links : links[k] = t
    /\ lsteps' = lsteps + 1
    /\ links' = Remaining(links, << t >>)
    /\ linkCall' = [linkCall EXCEPT !.others = TRUE]
    /\ UNCHANGED << related, loading, modelVars, serviceVars, whereVars, builderVars >>

NextLink ==
    \/ OwnerSave
    \/ SetManyRelation
    \/ LoadStart
    \/ LoadSettles
    \/ \E targets \in LinkArgs : LinkStart(targets)
    \/ LinkSettles
    \/ \E targets \in LinkArgs : UnlinkStart(targets)
    \/ UnlinkSettles
    \/ ClearStart
    \/ ClearSettles
    \/ \E t \in LinkTargets : OtherLinks(t) \/ OtherUnlinks(t)

SpecLink == InitQuery /\ [][NextLink]_vars

\* ---- claims on ManyToManyRelation -------------------------------------------
\* how often each target occurs in a list of targets
Multiplicity(list) ==
    [t \in LinkTargets |-> Cardinality({k \in DOMAIN list : list[k] = t})]

\* the owner's list holds what a fresh load returns from storage: the link
\* rows' targets, each as often
AsStored(owner, rows) == owner.loaded /\ Multiplicity(owner.list) = Multiplicity(rows)

\* this step ends a call of the application: it resumes after its await, or it
\* started and ended without one
EndsCall ==
    /\ linkCall'.pc = "idle"
    /\ \/ linkCall.pc = "awaiting"
       \/ lsteps' = lsteps + 1 /\ ~linkCall'.others

\* C27: when no other actor wrote to the link table during it, a successful
\* link, unlink or clear on an owner whose loaded list held what storage held
\* leaves the list holding what storage holds, so that by induction the list
\* equals a fresh load after any sequence of such calls
C27_ListFollowsStorage ==
    [][(/\ EndsCall
        /\ linkCall'.op \in {"link", "unlink", "clear"}
        /\ linkCall'.error = "none"
        /\ ~linkCall'.others
        /\ AsStored(linkCall'.was, linkCall'.stored))
            => AsStored(related', links')]_vars

C27_Witness ==
    /\ linkCall.op = "unlink"
    /\ linkCall.pc = "idle"
    /\ linkCall.error = "none"
    /\ ~linkCall.others
    /\ linkCall.was.loaded
    /\ Len(linkCall.was.list) = 2
    /\ AsStored(linkCall.was, linkCall.stored)
    /\ Len(related.list) = 1
    /\ AsStored(related, links)

\* C28: when storage reports for a link or unlink a count that is not the
\* number of targets, the call raises and leaves the list as it was if the
\* relation is loaded, and completes without raising, the relation still not
\* loaded, if it is not
C28_CountMismatch ==
    (/\ linkCall.op \in {"link", "unlink"}
     /\ linkCall.pc = "idle"
     /\ linkCall.stmts = 1
     /\ linkCall.error # "storage"
     /\ linkCall.affected # Len(linkCall.targets)) =>
        /\ related = linkCall.was
        /\ linkCall.error = IF linkCall.was.loaded THEN "fallback" ELSE "none"

\* another actor removed a link row first: unlink on a loaded relation raises
C28_Witness ==
    /\ linkCall.op = "unlink"
    /\ linkCall.pc = "idle"
    /\ linkCall.was.loaded
    /\ linkCall.was.list # << >>
    /\ linkCall.stored = << >>
    /\ linkCall.affected = 0
    /\ linkCall.error = "fallback"

C28_NotLoadedWitness ==
    /\ linkCall.op = "link"
    /\ linkCall.pc = "idle"
    /\ ~linkCall.was.loaded
    /\ linkCall.stmts = 1
    /\ linkCall.affected < Len(linkCall.targets)
    /\ linkCall.error = "none"

\* C29: link on an owner without primary key, or with a target without primary
\* key among its targets, raises at once: no statement is issued, the link
\* rows and the owner are as they were
C29_LinkNeedsSaved ==
    [][(/\ linkCall.pc = "idle"
        /\ lsteps' = lsteps + 1
        /\ linkCall'.op = "link"
        /\ ~linkCall'.others
        /\ \/ related.id = NullElement
           \/ \E k \in DOMAIN linkCall'.targets : linkCall'.targets[k] = NullElement) =>
            /\ linkCall'.pc = "idle"
            /\ linkCall'.error \in {"ownerNotSaved", "targetNotSaved"}
            /\ linkCall'.stmts = 0
            /\ links' = links
            /\ related' = related]_vars

\* a saved and an unsaved target in one call, on a loaded relation
C29_Witness ==
    /\ linkCall.op = "link"
    /\ linkCall.error = "targetNotSaved"
    /\ linkCall.was.loaded
    /\ linkCall.was.id # NullElement
    /\ \E k \in DOMAIN linkCall.targets : linkCall.targets[k] \in LinkTargets

C29_OwnerWitness ==
    /\ linkCall.op = "link"
    /\ linkCall.error = "ownerNotSaved"
    /\ linkCall.targets # << >>

\* C30: while clear awaits its DELETE the owner is as it was; when it has
\* ended without error the owner's rows were deleted by it and the relation is
\* loaded and empty, loaded before or not; a clear that storage rejected, and a
\* link or unlink on a relation that is not loaded, leave the owner as it was
C30_ClearLoads ==
    /\ (linkCall.op = "clear" /\ linkCall.pc = "awaiting") => related = linkCall.was
    /\ (linkCall.op = "clear" /\ linkCall.pc = "idle") =>
            IF linkCall.error = "none"
            THEN /\ related.loaded
                 /\ related.list = << >>
                 /\ linkCall.affected = Len(linkCall.stored)
                 /\ ~linkCall.others => links = << >>
            ELSE related = linkCall.was
    /\ (linkCall.op \in {"link", "unlink"} /\ ~linkCall.was.loaded) =>
            /\ related = linkCall.was
            /\ linkCall.pc = "idle" => linkCall.error \notin {"fallback"}

C30_Witness ==
    /\ linkCall.op = "clear"
    /\ linkCall.pc = "idle"
    /\ linkCall.error = "none"
    /\ ~linkCall.was.loaded
    /\ linkCall.stored # << >>
    /\ related.loaded
    /\ links = << >>

C30_NotLoadedWitness ==
    /\ linkCall.op = "unlink"
    /\ linkCall.pc = "idle"
    /\ linkCall.error = "none"
    /\ ~linkCall.was.loaded
    /\ Len(links) < Len(linkCall.stored)
    /\ ~related.loaded

\* ==== the event bus: ModelEventBus =============================================
\* A bus keeps `listeners`, a Map from an owner to the array of the listeners
\* that owner added. A Map iterates in the order in which its keys were first
\* set; deleting a key and setting it again puts it last. A listener is a
\* function that returns nothing, returns a promise, or throws.

MaxBusSteps == 5
MaxListeners == 3

BusOwners == {"a", "b"}

\* what a listener does when it is called: "void" returns at once, "promise"
\* is an async function that completes later, "throws" raises before it
\* returns, "rejects" is an async function whose promise rejects later
ListenerKinds == {"void", "promise", "throws", "rejects"}

\* the k-th listener added to the bus
Listener(k, kind) == [at |-> k, kind |-> kind]

\* the index of the entry of `owner` in the Map, 0 when it has none
MapGet(map, owner) ==
    IF \E k \in DOMAIN map : map[k].owner = owner
    THEN CHOOSE k \in DOMAIN map : map[k].owner = owner
    ELSE 0

\* Map.delete that forgets nothing
MapDelete_Keeps(map, owner) == map

\* Map.delete(owner)
MapDelete(map, owner) == SelectSeq(map, LAMBDA e : e.owner # owner)

\* the two loops of sendEvent: the listeners of every entry of the Map, entry
\* after entry
RECURSIVE Values(_)
Values(map) ==
    IF map = << >> THEN << >> ELSE Head(map).list \o Values(Tail(map))

\* the listeners the loops call before one of them throws: all of them, or
\* those up to and including the first that throws
Called(all) ==
    IF \E k \in DOMAIN all : all[k].kind = "throws"
    THEN SubSeq(all, 1, CHOOSE k \in DOMAIN all :
                            /\ all[k].kind = "throws"
                            /\ \A j \in 1..(k - 1) : all[j].kind # "throws")
    ELSE all

Range(seq) == {seq[k] : k \in DOMAIN seq}

\* addListener(owner, listener)
AddListener(owner, kind) ==
    /\ bsteps < MaxBusSteps
    /\ registrations < MaxListeners
    /\ LET listener == Listener(registrations + 1, kind)
           existing == MapGet(listeners, owner)
       IN  listeners' = IF existing # 0
                        THEN [listeners EXCEPT ![existing].list = Append(@, listener)]
                        ELSE Append(listeners, [owner |-> owner, list |-> << listener >>])
    /\ registrations' = registrations + 1
    /\ bsteps' = bsteps + 1
    /\ UNCHANGED << busCall, notBusVars >>

\* removeListener(owner)
RemoveListener(owner) ==
    /\ bsteps < MaxBusSteps
    /\ listeners' = MapDelete(listeners, owner)
    /\ bsteps' = bsteps + 1
    /\ UNCHANGED << registrations, busCall, notBusVars >>

\* sendEvent(value) up to its await: the loops call the listeners one after the
\* other and collect what they return. A listener that throws ends the loops
\* and the call, which rejects with what was thrown; otherwise the call awaits
\* Promise.all of the collected values
SendStart ==
    /\ bsteps < MaxBusSteps
    /\ busCall.pc # "awaiting"
    /\ LET all == Values(listeners)
           invoked == Called(all)
           threw == invoked # all
       IN  busCall' = [pc |-> IF threw THEN "done" ELSE "awaiting",
                       was |-> listeners,
                       invoked |-> invoked,
                       pending |-> {l \in Range(invoked) : l.kind \in {"promise", "rejects"}},
                       completed |-> {l \in Range(invoked) : l.kind \in {"void", "throws"}},
                       error |-> IF threw THEN "thrown" ELSE "none"]
    /\ bsteps' = bsteps + 1
    /\ UNCHANGED << listeners, registrations, notBusVars >>

\* the promise of an async listener settles. Promise.all rejects as soon as one
\* of its promises rejects, and sendEvent with it, whatever the others do
ListenerSettles(l) ==
    /\ l \in busCall.pending
    /\ busCall' = [busCall EXCEPT
                     !.pending = @ \ {l},
                     !.completed = @ \cup {l},
                     !.pc = IF l.kind = "rejects" THEN "done" ELSE @,
                     !.error = IF l.kind = "rejects" /\ busCall.pc = "awaiting"
                               THEN "rejected" ELSE @]
    /\ UNCHANGED << listeners, registrations, bsteps, notBusVars >>

\* Promise.all fulfils once every collected promise is fulfilled, and sendEvent
\* returns
SendSettles ==
    /\ busCall.pc = "awaiting"
    /\ busCall.pending = {}
    /\ busCall' = [busCall EXCEPT !.pc = "done"]
    /\ UNCHANGED << listeners, registrations, bsteps, notBusVars >>

NextBus ==
    \/ \E owner \in BusOwners, kind \in ListenerKinds : AddListener(owner, kind)
    \/ \E owner \in BusOwners : RemoveListener(owner)
    \/ SendStart
    \/ \E l \in busCall.pending : ListenerSettles(l)
    \/ SendSettles

SpecBus == InitQuery /\ [][NextBus]_vars

\* ---- C31 --------------------------------------------------------------------
\* the listeners registered when the send was made
AtSend == UNION {Range(busCall.was[k].list) : k \in DOMAIN busCall.was}
\* no listener of the send throws or rejects
NoneRaises == \A l \in AtSend : l.kind \in {"void", "promise"}

\* C31: a sendEvent none of whose listeners raises calls every listener
\* registered at that moment exactly once, in the order in which the listeners
\* were added whoever their owners are, calls no listener of a removed owner,
\* and has completed only when every listener has.
C31_SubscriptionOrder ==
    (busCall.pc # "idle" /\ NoneRaises) =>
        /\ Len(busCall.invoked) = Cardinality(AtSend)
        /\ Range(busCall.invoked) = AtSend
        /\ \A i, j \in DOMAIN busCall.invoked :
               i < j => busCall.invoked[i].at < busCall.invoked[j].at
        /\ busCall.pc = "done" => busCall.completed = AtSend

\* the parts of C31 that the order of the Map's keys does not touch: every
\* registered listener is called exactly once, the listeners of one owner in
\* the order that owner added them, the owners in the order of their entries,
\* and the call has completed only when every listener has
C31_OwnerOrder ==
    (busCall.pc # "idle" /\ NoneRaises) =>
        /\ Len(busCall.invoked) = Cardinality(AtSend)
        /\ Range(busCall.invoked) = AtSend
        /\ busCall.invoked = Values(busCall.was)
        /\ busCall.pc = "done" => busCall.completed = AtSend /\ busCall.error = "none"

\* a send reached two owners, the first of which had added a listener after
\* the second owner's
C31_Witness ==
    /\ busCall.pc = "done"
    /\ NoneRaises
    /\ Len(busCall.was) = 2
    /\ Len(busCall.was[1].list) = 2
    /\ busCall.was[1].list[2].at > busCall.was[2].list[1].at

\* ==== the 'updated' notification and its getOldModel ===========================
\* A listener of the model event bus may keep the notification it was called
\* with and call its getOldModel() at any later time, after any number of
\* further calls on the live instance.

\* OldRow that reads the snapshot of the live instance when getOldModel is called
OldRow_Live(originalProperties, live) == live

\* the row getOldModel hands to fromRow: `originalProperties`, the object save()
\* made from the entries of the snapshot before markSaved(fields)
OldRow(originalProperties, live) == originalProperties

\* getOldModel(): fromRow(originalProperties), which returns undefined when the
\* row has no primary key, calls column.from on every entry and then
\* markSaved(); an undefined result is turned into an Error
GetOldModel(row, live) ==
    LET p == FromRowProps(row)
        snapshot == MarkSavedSnapshot(NoFields, p)
    IN  IF row[PrimaryName] \in {Null, Undefined}
        THEN [NoOldModel EXCEPT !.result = "throw", !.error = "failedToCreate", !.live = live]
        ELSE IF \E n \in Declared : p[n] = Throw
        THEN [NoOldModel EXCEPT !.result = "throw", !.error = "from", !.live = live]
        ELSE IF \E n \in Declared : snapshot[n] = Throw
        THEN [NoOldModel EXCEPT !.result = "throw", !.error = "to", !.live = live]
        ELSE [result |-> "model", error |-> "none", props |-> p, exists |-> TRUE,
              snapshot |-> snapshot, live |-> live]

\* the listener keeps the 'updated' notification the most recent save() sent
KeepEvent ==
    /\ emitted # << >>
    /\ emitted[1].type = "updated"
    /\ held # emitted[1]
    /\ held' = emitted[1]
    /\ oldModel' = NoOldModel
    /\ UNCHANGED << modelVars, notEventVars >>

\* the listener calls getOldModel() of the notification it kept
GetOldModelCall ==
    /\ held.type = "updated"
    /\ oldModel' = GetOldModel(OldRow(held.originalFields, savedProperties[held.model]),
                               savedProperties[held.model])
    /\ oldModel' # oldModel
    /\ UNCHANGED << held, modelVars, notEventVars >>

NextEvent ==
    \/ Next
    \/ KeepEvent
    \/ GetOldModelCall

SpecEvent == Init /\ [][NextEvent]_vars

\* ---- C32 --------------------------------------------------------------------
\* the step is a save() that sent an 'updated' notification
SendsUpdated ==
    /\ nops' = nops + 1
    /\ lastCall'.op = "save"
    /\ lastCall'.event = "updated"

\* the values column.from gives for the stored values of a row
Decoded(row) ==
    [n \in ColNames |->
        IF n \notin Declared \/ row[n] = Undefined THEN Undefined
        ELSE IF row[n] = Null THEN Null
        ELSE IF Column(n).type = "boolean" THEN (IF row[n] = "1" THEN "true" ELSE "false")
        ELSE row[n]]

\* C32, as stated: whenever getOldModel() of a kept 'updated' notification was
\* called, it returned a Persisted instance whose column values are the decoded
\* values of the notification's originalFields.
C32_OldModel ==
    oldModel.result # "none" =>
        /\ oldModel.result = "model"
        /\ oldModel.exists
        /\ oldModel.props = Decoded(held.originalFields)

\* C32, amended: the originalFields of an 'updated' notification are the
\* snapshot as it was before the write; whenever getOldModel() of a kept
\* notification is called, whatever was done to the live instance since, it
\* returns a Persisted instance whose column values are the decoded
\* originalFields if these hold a primary key, and raises if they hold none.
C32_OldModelWithPrimaryKey ==
    [][/\ SendsUpdated =>
            emitted'[1].originalFields = savedProperties[lastCall'.inst]
       /\ oldModel'.result # "none" =>
            IF held'.originalFields[PrimaryName] \in {Null, Undefined}
            THEN oldModel'.result = "throw" /\ oldModel'.error = "failedToCreate"
            ELSE /\ oldModel'.result = "model"
                 /\ oldModel'.exists
                 /\ oldModel'.props = Decoded(held'.originalFields)]_vars

\* getOldModel() returned a model after the live instance's snapshot had moved
\* on from the notification's originalFields
C32_Witness ==
    /\ oldModel.result = "model"
    /\ oldModel.live # held.originalFields
    /\ \E n \in Declared \ {PrimaryName} : held.originalFields[n] \notin {Undefined, Null}

\* getOldModel() was called on a notification whose originalFields hold no
\* primary key
C32_NoKeyWitness ==
    /\ oldModel.result = "throw"
    /\ held.originalFields[PrimaryName] = Undefined

\* ---- C33 --------------------------------------------------------------------
\* the step is a save() call
SaveCalled ==
    /\ nops' = nops + 1
    /\ lastCall'.op = "save"

\* the errors save() raises before its statement is issued
BeforeStatement ==
    {"relationNotSaved", "foreignKeyModified", "foreignKeySet", "noIdSelected",
     "primaryKeySet", "undefinedProperty", "to"}

\* C33: a save() that raises before its statement is issued, or whose INSERT
\* or UPDATE storage rejects, leaves the existence flag, the snapshot and the
\* force-save set of the instance (and of every other instance) as they were
\* and sends no notification; and a save() whose statement storage rejects does
\* raise.
C33_FailedSaveChangesNothing ==
    [][/\ (SaveCalled /\ lastCall'.resp = "error") =>
            /\ lastCall'.result = "throw"
            /\ lastCall'.error = "storage"
       /\ (SaveCalled /\ lastCall'.result = "throw") =>
            /\ lastCall'.error \in BeforeStatement \cup {"storage"}
            /\ lastCall'.error \in BeforeStatement => lastCall'.stmt = "none"
            /\ existsInDatabase' = existsInDatabase
            /\ savedProperties' = savedProperties
            /\ forceSaveProperties' = forceSaveProperties
            /\ emitted' = << >>]_vars

\* storage rejected the UPDATE of a Persisted instance that had a snapshot and
\* a column forced to be saved
C33_Witness ==
    /\ lastCall.op = "save"
    /\ lastCall.result = "throw"
    /\ lastCall.stmt = "UPDATE"
    /\ lastCall.resp = "error"
    /\ existsInDatabase[lastCall.inst]
    /\ forceSaveProperties[lastCall.inst] # {}
    /\ savedProperties[lastCall.inst] # NoFields

\* a save() raised before its statement on an instance with a force-save set
C33_ChecksWitness ==
    /\ lastCall.op = "save"
    /\ lastCall.result = "throw"
    /\ lastCall.error \in BeforeStatement
    /\ forceSaveProperties[lastCall.inst] # {}

\* ==== save() calls that overlap =================================================
\* save() is an async function with one await before its writes to the
\* instance: the INSERT or UPDATE. Everything up to the statement runs when
\* save() is called; the rest runs when storage has answered. Between the two
\* application code runs: it may assign columns and call save() again.

\* another save() of the instance that is awaiting storage (0: none)
Awaiting(i) ==
    IF \E k \in DOMAIN saves : saves[k].inst = i /\ saves[k].state = "pending"
    THEN CHOOSE k \in DOMAIN saves : saves[k].inst = i /\ saves[k].state = "pending"
    ELSE 0

\* a save() call that issued its statement
Issued(i, stmt, fields, id) ==
    [inst |-> i, stmt |-> stmt, fields |-> fields, id |-> id, state |-> "pending",
     during |-> Awaiting(i), insertId |-> Undefined, snapshot |-> NoFields,
     event |-> "none"]

\* save() up to its await: the checks, the pre-save hooks, the write set, and
\* the statement, an INSERT when the existence flag is not set at this moment
SaveStart(i, now) ==
    /\ alive[i]
    /\ nops < MaxOps
    /\ nops' = nops + 1
    /\ HasBeforeSave \/ now = "0"
    /\ LET relErr == SaveRelationError(i)
           pkErr == SavePrimaryKeyError(i)
           p1 == BeforeSave(props[i], now)
           ch == GetChangedDatabaseProperties(i, p1)
           was == existsInDatabase[i]
           Leaves(result, e, col, stmt, fields) ==
               /\ lastCall' = Call("save", i, GetPrimaryKey(i), result, e, col, stmt,
                                   fields, "none", "none", was, i \in clean)
               /\ emitted' = << >>
       IN
       IF relErr # "none" \/ pkErr # "none"
       THEN /\ Leaves("throw", IF relErr # "none" THEN relErr ELSE pkErr, "none", "none",
                       NoFields)
            /\ UNCHANGED << props, saves >>
       ELSE IF ch.error # "none"
       THEN /\ Leaves("throw", ch.error, ch.column, "none", NoFields)
            /\ props' = [props EXCEPT ![i] = p1]
            /\ UNCHANGED saves
       ELSE IF IsNoOp(was, ch.fields, ch.skipUpdate)
       THEN /\ Leaves("false", "none", "none", "none", ch.fields)
            /\ props' = [props EXCEPT ![i] = p1]
            /\ UNCHANGED saves
       ELSE /\ Leaves("pending", "none", "none", IF was THEN "UPDATE" ELSE "INSERT",
                       ch.fields)
            /\ props' = [props EXCEPT ![i] = p1]
            /\ saves' = Append(saves, Issued(i, IF was THEN "UPDATE" ELSE "INSERT",
                                             ch.fields, GetPrimaryKey(i)))
    /\ UNCHANGED << cls, snapshotOf, forceSetOf, alive, parent, existsInDatabase,
                    savedProperties, forceSaveProperties, nextInsertId, clean, deleted >>
    /\ UNCHANGED notOverlapVars

\* storage refuses a second row with a primary key it already holds
Duplicate(k) ==
    /\ ~AutoIncrementPrimary(cls)
    /\ \E j \in DOMAIN saves :
          /\ saves[j].stmt = "INSERT"
          /\ saves[j].state = "ok"
          /\ saves[j].fields[PrimaryName] = saves[k].fields[PrimaryName]

\* MarkSavedWritten that takes the snapshot from the properties as they are now
MarkSavedWritten_Current(old, fields, p) ==
    [n \in ColNames |->
        IF n \in Declared /\ fields[n] # Undefined THEN ColumnTo(Column(n), p[n]) ELSE old[n]]

\* markSaved(fields) after the await: the snapshot takes the values that were
\* written, whatever the properties are by now
MarkSavedWritten(old, fields, p) == MarkSavedFields(old, fields)

\* save() from its await on: storage answers the statement of call k; the id
\* of an INSERT is written back, the existence flag as it is now decides
\* between 'updated' and 'created', markSaved(fields), sendEvent
SaveSettles(k, resp) ==
    /\ k \in DOMAIN saves
    /\ saves[k].state = "pending"
    /\ LET e == saves[k]
           i == e.inst
           auto == AutoIncrementPrimary(cls)
           insert == e.stmt = "INSERT"
           Ends(result, error, event) ==
               lastCall' = Call("save", i, e.id, result, error, "none", e.stmt, e.fields,
                                resp, event, existsInDatabase[i], i \in clean)
       IN
       /\ insert => resp \in {"ok", "error"}
       /\ (insert /\ Duplicate(k)) => resp = "error"
       /\ (insert /\ auto /\ resp = "ok") => nextInsertId <= MaxInsertId
       /\ IF (insert /\ resp = "error") \/ (~insert /\ ~UpdateAccepted(resp))
          THEN /\ Ends("throw", "storage", "none")
               /\ emitted' = << >>
               /\ saves' = [saves EXCEPT ![k].state = "error"]
               /\ UNCHANGED << props, existsInDatabase, savedProperties,
                               forceSaveProperties, nextInsertId, clean, deleted >>
          ELSE LET wrote == insert /\ auto
                   p2 == IF wrote THEN [props[i] EXCEPT ![PrimaryName] = InsertId]
                         ELSE props[i]
                   f2 == IF wrote THEN [e.fields EXCEPT ![PrimaryName] = InsertId]
                         ELSE e.fields
                   snapshot == MarkSavedWritten(savedProperties[i], f2, p2)
                   event == IF existsInDatabase[i] THEN "updated" ELSE "created"
               IN  /\ props' = [props EXCEPT ![i] = SyncForeignKey(i, p2)]
                   /\ existsInDatabase' = [existsInDatabase EXCEPT ![i] = TRUE]
                   /\ savedProperties' = WriteSnapshot(i, snapshot)
                   /\ forceSaveProperties' =
                          WriteForceSet(i, ForceAfterSave(forceSaveProperties[i]))
                   /\ nextInsertId' = IF wrote THEN nextInsertId + 1 ELSE nextInsertId
                   /\ clean' = clean \ {i}
                   /\ deleted' = deleted \ {i}
                   /\ Ends("true", "none", event)
                   /\ emitted' = SendEvent(<< >>,
                          IF event = "updated"
                          THEN ModelEvent("updated", i, f2, OriginalProperties(i), TRUE,
                                          snapshot)
                          ELSE ModelEvent("created", i, NoFields, NoFields, TRUE, snapshot))
                   /\ saves' = [saves EXCEPT
                                  ![k].state = "ok",
                                  ![k].insertId = IF wrote THEN InsertId ELSE Undefined,
                                  ![k].fields = f2,
                                  ![k].snapshot = snapshot,
                                  ![k].event = event]
    /\ UNCHANGED << cls, snapshotOf, forceSetOf, alive, parent, nops >>
    /\ UNCHANGED notOverlapVars

NextOverlap ==
    \/ \E i \in Insts : New(i)
    \/ \E i \in Insts : \E row \in RowTable[cls] : FromRow(i, row)
    \/ \E i \in Insts : \E n \in ColNames : \E v \in IntVals \cup StrVals \cup BoolVals \cup {Null} :
            Assign(i, n, v)
    \/ \E i \in Insts : \E j \in Insts \cup {RelNull} : SetOptionalRelation(i, j)
    \/ \E i \in Insts : UnloadRelation(i)
    \/ \E i \in Insts : \E now \in NowValues : SaveStart(i, now)
    \/ \E k \in DOMAIN saves : \E resp \in Responses : SaveSettles(k, resp)

SpecOverlap == Init /\ [][NextOverlap]_vars

\* ---- C34 --------------------------------------------------------------------
\* C34: no save() that was called on an instance while another save() of that
\* instance was awaiting the answer to its INSERT issues an INSERT itself; and
\* once no save() of the instance is awaiting, the instance is Persisted with
\* the primary key of the one row inserted for it.
C34_OneInsert ==
    /\ \A k \in DOMAIN saves :
          (saves[k].stmt = "INSERT" /\ saves[k].during # 0)
              => saves[saves[k].during].stmt # "INSERT"
    /\ \A i \in Insts :
          LET inserted == {k \in DOMAIN saves :
                              /\ saves[k].inst = i
                              /\ saves[k].stmt = "INSERT"
                              /\ saves[k].state = "ok"}
          IN  (Awaiting(i) = 0 /\ inserted # {} /\ AutoIncrementPrimary(cls)) =>
                  /\ existsInDatabase[i]
                  /\ Cardinality(inserted) = 1
                  /\ \A k \in inserted : props[i][PrimaryName] = saves[k].insertId

\* ---- C35 --------------------------------------------------------------------
\* save() call k gets its answer in this step and completes
Completes(k) ==
    /\ saves[k].state = "pending"
    /\ saves'[k].state = "ok"

\* the step is a save() call on instance i that got past its checks
Saves(i) ==
    /\ nops' = nops + 1
    /\ lastCall'.op = "save"
    /\ lastCall'.inst = i
    /\ lastCall'.result # "throw"

\* column n of instance i holds, after the step, a value that is not the one
\* in the snapshot before it
Newer(i, n) ==
    /\ ~IsAutoIncrement(cls, Column(n))
    /\ props'[i][n] # Undefined
    /\ ColumnTo(Column(n), props'[i][n]) # savedProperties[i][n]

C35_InFlightWitness ==
    \E k \in DOMAIN saves : \E n \in Declared \ {PrimaryName} :
        /\ saves[k].state = "ok"
        /\ lastCall.result = "true"
        /\ saves[k].fields[n] # Undefined
        /\ props[saves[k].inst][n] # Undefined
        /\ ColumnTo(Column(n), props[saves[k].inst][n]) # saves[k].fields[n]
        /\ savedProperties[saves[k].inst][n] = saves[k].fields[n]

\* ==== a relation whose target is deleted ========================================
\* The calls of the entity, starting where application code holds a target
\* that was loaded from its row (primary key 1, the next id storage hands out
\* is 2) and an owner made by `new TestModel()`.
InitRelation ==
    /\ WhereIdle
    /\ QueryIdle
    /\ RelationIdle
    /\ ServiceIdle
    /\ cls = "TestModel"
    /\ alive = [i \in Insts |-> i \in {1, 2}]
    /\ props = [i \in Insts |->
                   IF i = 2 THEN FromRowProps(TargetRow("1"))
                   ELSE IF i = 1 THEN Defaults("TestModel") ELSE NoFields]
    /\ parent = [i \in Insts |-> RelUndefined]
    /\ existsInDatabase = [i \in Insts |-> i = 2]
    /\ savedProperties = [i \in Insts |->
                             IF i = 2
                             THEN MarkSavedSnapshot(NoFields, FromRowProps(TargetRow("1")))
                             ELSE NoFields]
    /\ forceSaveProperties = [i \in Insts |-> {}]
    /\ snapshotOf = [i \in Insts |-> i]
    /\ forceSetOf = [i \in Insts |-> i]
    /\ nextInsertId = 2
    /\ clean = {}
    /\ deleted = {}
    /\ lastCall = Call("none", 0, Undefined, "none", "none", "none", "none", NoFields,
                       "none", "none", FALSE, FALSE)
    /\ emitted = << >>
    /\ nops = 0

\* the calls made on the two instances
NextRelation ==
    \/ \E i \in Insts : \E n \in ColNames : \E v \in IntVals \cup {Null} : Assign(i, n, v)
    \/ \E i \in Insts : \E j \in Insts \cup {RelNull} : AssignRelation(i, j)
    \/ \E i \in Insts : \E j \in Insts \cup {RelNull} : SetOptionalRelation(i, j)
    \/ \E i \in Insts : UnsetRelation(i)
    \/ \E i \in Insts : \E j \in Insts : SetRelation(i, j)
    \/ \E i \in Insts : UnloadRelation(i)
    \/ \E i \in Insts : \E resp \in Responses : Save(i, resp, "0")
    \/ \E i \in Insts : \E resp \in Responses : Delete(i, resp)

SpecRelation == InitRelation /\ [][NextRelation]_vars

\* ---- C36 --------------------------------------------------------------------
\* the step is a call `op` on instance i
Calls(op, i) ==
    /\ nops' = nops + 1
    /\ lastCall'.op = op
    /\ lastCall'.inst = i

AfterStatement ==
    IF linkCall.op = "link"
    THEN linkCall.stored \o SubSeq(linkCall.targets, 1, linkCall.affected)
    ELSE SelectSeq(linkCall.stored,
                   LAMBDA t : \A k \in DOMAIN linkCall.targets : linkCall.targets[k] # t)

\* C37: when a link or unlink on a loaded relation got from storage a count
\* that is not the number of its targets, it raised the mismatch error after
\* its one statement, the owner's list is exactly what it was before the call,
\* and, as long as no one else writes to the link table, storage holds what the
\* statement left: the rows it inserted are there and the rows it deleted are
\* gone; so a list that held what storage held before a call that changed a
\* row no longer holds what storage holds.
C37_NoCompensation ==
    (/\ linkCall.op \in {"link", "unlink"}
     /\ linkCall.pc = "idle"
     /\ linkCall.was.loaded
     /\ linkCall.stmts = 1
     /\ linkCall.error # "storage"
     /\ linkCall.affected # Len(linkCall.targets)) =>
        /\ linkCall.error = "fallback"
        /\ related = linkCall.was
        /\ ~linkCall.others =>
              /\ links = AfterStatement
              /\ Len(links) = IF linkCall.op = "link"
                              THEN Len(linkCall.stored) + linkCall.affected
                              ELSE Len(linkCall.stored) - linkCall.affected
              /\ (AsStored(linkCall.was, linkCall.stored) /\ linkCall.affected > 0) =>
                     ~AsStored(related, links)

\* unlink of two targets of which one was linked raised: the row is gone from
\* storage and the target is still in the list, which held what storage held
C37_Witness ==
    /\ linkCall.op = "unlink"
    /\ linkCall.pc = "idle"
    /\ linkCall.error = "fallback"
    /\ ~linkCall.others
    /\ AsStored(linkCall.was, linkCall.stored)
    /\ linkCall.affected = 1
    /\ Len(linkCall.targets) = 2
    /\ Len(related.list) = 1
    /\ links = << >>

\* link of two targets of which storage inserted one raised
C37_LinkWitness ==
    /\ linkCall.op = "link"
    /\ linkCall.pc = "idle"
    /\ linkCall.error = "fallback"
    /\ ~linkCall.others
    /\ linkCall.affected = 1
    /\ related.list = << >>
    /\ Len(links) = 1

\* ==== Database: the connection pool =============================================
\* select, insert, update, delete and statement have one body: take the
\* caller's connection or await one of the pool, await the query inside `try`,
\* and in `finally` release the connection if it came from the pool.
\* Application code can also take a connection itself (getConnection) to pass
\* to the calls, and releases it itself.

MaxDbCalls == 2

Connections == 1..ConnectionLimit
DatabaseOps == {"select", "insert", "update", "delete", "statement"}

\* `useConnection ?? (await this.getConnection())`: a call that was given no
\* connection (0) awaits one of the pool
NewCall(op, useConnection) ==
    [op |-> op, supplied |-> useConnection # 0, connection |-> useConnection,
     pc |-> IF useConnection # 0 THEN "querying" ELSE "acquiring",
     outcome |-> "none", releases |-> 0]

\* ReleasedInFinally that releases whatever connection the call used
ReleasedInFinally_Always(supplied) == TRUE

\* `finally { if (!useConnection) connection.release() }`
ReleasedInFinally(supplied) == ~supplied

\* connection.release(): the connection goes back to the pool
Release(p, c) == [p EXCEPT ![c] = "free"]

\* application code: const connection = await Database.getConnection()
CallerAcquires(c) ==
    /\ pool[c] = "free"
    /\ \A d \in Connections : pool[d] # "caller"
    /\ pool' = [pool EXCEPT ![c] = "caller"]
    /\ UNCHANGED << dbCalls, notPoolVars >>

\* application code: connection.release(), once no call is using it
CallerReleases(c) ==
    /\ pool[c] = "caller"
    /\ \A k \in DOMAIN dbCalls : dbCalls[k].connection = c => dbCalls[k].pc = "done"
    /\ pool' = Release(pool, c)
    /\ UNCHANGED << dbCalls, notPoolVars >>

\* Database.<op>(query, values, useConnection): with a connection the query is
\* sent on it at once, without one the call awaits getConnection()
DatabaseCall(op, useConnection) ==
    /\ Len(dbCalls) < MaxDbCalls
    /\ useConnection # 0 => pool[useConnection] = "caller"
    /\ dbCalls' = Append(dbCalls, NewCall(op, useConnection))
    /\ UNCHANGED << pool, notPoolVars >>

\* pool.getConnection() answers: a free connection (the call waits while there
\* is none, waitForConnections), or an error, with which the call rejects
GetConnection(k) ==
    /\ dbCalls[k].pc = "acquiring"
    /\ \/ \E c \in Connections :
            /\ pool[c] = "free"
            /\ pool' = [pool EXCEPT ![c] = "call"]
            /\ dbCalls' = [dbCalls EXCEPT ![k].connection = c, ![k].pc = "querying"]
       \/ /\ dbCalls' = [dbCalls EXCEPT ![k].pc = "done", ![k].outcome = "noConnection"]
          /\ UNCHANGED pool
    /\ UNCHANGED notPoolVars

\* connection.query answers, with rows or with an error: the `finally` block
\* runs and the call returns or rejects
QuerySettles(k, outcome) ==
    /\ dbCalls[k].pc = "querying"
    /\ LET released == ReleasedInFinally(dbCalls[k].supplied)
       IN  /\ pool' = IF released THEN Release(pool, dbCalls[k].connection) ELSE pool
           /\ dbCalls' = [dbCalls EXCEPT
                            ![k].pc = "done",
                            ![k].outcome = outcome,
                            ![k].releases = IF released THEN @ + 1 ELSE @]
    /\ UNCHANGED notPoolVars

NextPool ==
    \/ \E c \in Connections : CallerAcquires(c)
    \/ \E c \in Connections : CallerReleases(c)
    \/ \E op \in DatabaseOps : \E c \in Connections \cup {0} : DatabaseCall(op, c)
    \/ \E k \in DOMAIN dbCalls : GetConnection(k)
    \/ \E k \in DOMAIN dbCalls : \E outcome \in {"ok", "error"} : QuerySettles(k, outcome)

SpecPool == InitQuery /\ [][NextPool]_vars

\* ---- C38 --------------------------------------------------------------------
\* the calls that hold a connection they took from the pool
Holding == {k \in DOMAIN dbCalls : dbCalls[k].pc = "querying" /\ ~dbCalls[k].supplied}

\* C38: a call that took a connection from the pool has released it exactly
\* once when it has completed, with rows or with an error, and not before; a
\* call that was given a connection never releases it, so the connection stays
\* with the caller; and the connections out of the pool are those of the calls
\* in progress, one each, so that none is left once every call has completed.
C38_ReleasedOnce ==
    /\ \A k \in DOMAIN dbCalls :
          LET call == dbCalls[k]
          IN  /\ call.supplied =>
                    /\ call.releases = 0
                    /\ call.pc # "done" => pool[call.connection] = "caller"
              /\ (~call.supplied /\ call.pc = "done") =>
                    call.releases = IF call.outcome = "noConnection" THEN 0 ELSE 1
              /\ (~call.supplied /\ call.pc # "done") =>
                    /\ call.releases = 0
                    /\ call.pc = "querying" => pool[call.connection] = "call"
    /\ Cardinality({c \in Connections : pool[c] = "call"}) = Cardinality(Holding)
    /\ \A k, j \in Holding : dbCalls[k].connection = dbCalls[j].connection => k = j
    /\ (\A k \in DOMAIN dbCalls : dbCalls[k].pc = "done") =>
          \A c \in Connections : pool[c] # "call"

\* a call that was given the caller's connection and a call that took one of
\* the pool have both completed with an error: the pool's connection is back,
\* released once, and the caller still has its own
C38_Witness ==
    /\ Len(dbCalls) = 2
    /\ \A k \in DOMAIN dbCalls : dbCalls[k].pc = "done" /\ dbCalls[k].outcome = "error"
    /\ \E k \in DOMAIN dbCalls : dbCalls[k].supplied /\ dbCalls[k].releases = 0
    /\ \E k \in DOMAIN dbCalls : ~dbCalls[k].supplied /\ dbCalls[k].releases = 1
    /\ Cardinality({c \in Connections : pool[c] = "caller"}) = 1
    /\ Cardinality({c \in Connections : pool[c] = "free"}) = 1

\* two calls that took connections of the pool at the same time have completed
\* with rows: both connections are back
C38_SuccessWitness ==
    /\ Len(dbCalls) = 2
    /\ \A k \in DOMAIN dbCalls :
          /\ dbCalls[k].pc = "done" /\ dbCalls[k].outcome = "ok"
          /\ ~dbCalls[k].supplied /\ dbCalls[k].releases = 1
    /\ dbCalls[1].connection # dbCalls[2].connection
    /\ \A c \in Connections : pool[c] = "free"

\* ==== Migration.runAll ===========================================================
\* File names and paths are strings, modelled as sequences of characters, so
\* that cleanFileName, getMigration's tests and the sort's comparison are
\* computed on the characters as the code computes them.

MaxRuns == 2
MaxFiles == 2

\* the UTF-16 code units of the characters that occur
Code ==
    [ch \in {",", ".", "/", "0", "1", "2", "a", "b", "d", "j", "l", "q", "s", "t"} |->
        CASE ch = "," -> 44 [] ch = "." -> 46 [] ch = "/" -> 47
          [] ch = "0" -> 48 [] ch = "1" -> 49 [] ch = "2" -> 50
          [] ch = "a" -> 97 [] ch = "b" -> 98 [] ch = "d" -> 100
          [] ch = "j" -> 106 [] ch = "l" -> 108 [] ch = "q" -> 113
          [] ch = "s" -> 115 [] ch = "t" -> 116]

\* String.prototype.endsWith
EndsWith(str, suffix) ==
    /\ Len(suffix) <= Len(str)
    /\ SubSeq(str, Len(str) - Len(suffix) + 1, Len(str)) = suffix

\* String.prototype.indexOf, counted from 1; 0 when the part does not occur
IndexOf(str, part) ==
    LET at == {i \in 1..(Len(str) - Len(part) + 1) : SubSeq(str, i, i + Len(part) - 1) = part}
    IN  IF at = {} THEN 0 ELSE CHOOSE i \in at : \A j \in at : i <= j

\* String.prototype.replace with a string pattern: the first occurrence only
Replace(str, part, by) ==
    LET i == IndexOf(str, part)
    IN  IF i = 0 THEN str
        ELSE SubSeq(str, 1, i - 1) \o by \o SubSeq(str, i + Len(part), Len(str))

\* a < b on strings: by code units, a proper prefix first
RECURSIVE StringLess(_, _)
StringLess(a, b) ==
    IF b = << >> THEN FALSE
    ELSE IF a = << >> THEN TRUE
    ELSE IF Head(a) # Head(b) THEN Code[Head(a)] < Code[Head(b)]
    ELSE StringLess(Tail(a), Tail(b))

\* the string of the array [name, full], which `<` and `>` compare
ArrayString(entry) == entry[1] \o << "," >> \o entry[2]

\* cleanFileName that keeps the name as it is
CleanFileName_Keeps(file) == file

\* Migration.cleanFileName: file.replace('.ts', '.js')
CleanFileName(file) == Replace(file, << ".", "t", "s" >>, << ".", "j", "s" >>)

\* SELECT count(*) as c FROM migrations WHERE `file` = ?
CountOf(file, rows) == Cardinality({i \in DOMAIN rows : rows[i] = file})

\* Migration.isExecuted: rows[0]['']['c'] == 1
IsExecuted(file, rows) == CountOf(CleanFileName(file), rows) = 1

\* Migration.markAsExecuted: nothing when isExecuted, else a new row is saved
MarkAsExecuted(file, rows) ==
    IF IsExecuted(file, rows) THEN rows ELSE Append(rows, CleanFileName(file))

\* Migration.getMigration: TRUE when the file gives a migration (.sql other than
\* .down.sql, or .ts / .js other than .test. and .d.ts)
GetMigration(file) ==
    IF EndsWith(file, << ".", "s", "q", "l" >>)
    THEN ~EndsWith(file, << ".", "d", "o", "w", "n", ".", "s", "q", "l" >>)
    ELSE /\ IndexOf(file, << ".", "t", "e", "s", "t", "." >>) = 0
         /\ ~EndsWith(file, << ".", "d", ".", "t", "s" >>)
         /\ EndsWith(file, << ".", "t", "s" >>) \/ EndsWith(file, << ".", "j", "s" >>)

\* the built-in migration (000000000-setup-migrations.sql), which creates the table
SetupName == << "0", ".", "s", "q", "l" >>

\* the folders the pattern gives (folderQueue) and the file names that occur
Folders == << << "a" >>, << "b" >> >>
FileNames ==
    { << "1", ".", "s", "q", "l" >>, << "2", ".", "j", "s" >>,
      << "2", ".", "t", "s" >>, << "2", ".", "d", ".", "t", "s" >> }

\* the number of files in the folders
RECURSIVE FileCountIn(_, _)
FileCountIn(files, queue) ==
    IF queue = << >> THEN 0
    ELSE Cardinality(files[Head(queue)]) + FileCountIn(files, Tail(queue))

FileCount(files) == FileCountIn(files, Folders)

\* fs.readdir(p), in the order of the names
RECURSIVE ReadDir(_)
ReadDir(names) ==
    IF names = {} THEN << >>
    ELSE LET first == CHOOSE n \in names : \A o \in names \ {n} : StringLess(n, o)
         IN  << first >> \o ReadDir(names \ {first})

\* the scan: every file of every folder of the queue that is not executed
RECURSIVE Scan(_, _, _)
Scan(queue, files, rows) ==
    IF queue = << >> THEN << >>
    ELSE LET p == Head(queue)
             folderFiles == ReadDir(files[p])
             found == SelectSeq(folderFiles, LAMBDA name : ~IsExecuted(name, rows))
         IN  [i \in DOMAIN found |-> << found[i], p \o << "/" >> \o found[i] >>]
                \o Scan(Tail(queue), files, rows)

\* the comparison function of the sort: -1, 1 or 0
Compare(a, b) ==
    IF StringLess(ArrayString(a), ArrayString(b)) THEN -1
    ELSE IF StringLess(ArrayString(b), ArrayString(a)) THEN 1
    ELSE 0

\* migrations.sort(compare)
RECURSIVE SortBy(_)
SortBy(list) ==
    IF list = << >> THEN << >>
    ELSE LET i == CHOOSE k \in DOMAIN list : \A j \in DOMAIN list : Compare(list[k], list[j]) <= 0
         IN  << list[i] >> \o SortBy(SubSeq(list, 1, i - 1) \o SubSeq(list, i + 1, Len(list)))

\* the loop's head: the first entry from `at` on whose file gives a migration
\* (the others: `continue`), or Len + 1
RECURSIVE Advance(_, _)
Advance(list, at) ==
    IF at > Len(list) THEN at
    ELSE IF GetMigration(list[at][2]) THEN at
    ELSE Advance(list, at + 1)

NotRunning == [pc |-> "idle", migrations |-> << >>, at |-> 0, returned |-> "none"]

\* the loop goes on at entry `at`: up() of that entry is called, or the loop
\* is over and runAll returns true; the log keeps whether the table held the
\* file's row when up() was called
Continue(list, at, log, rows) ==
    LET next == Advance(list, at)
    IN  IF next > Len(list)
        THEN /\ run' = [pc |-> "done", migrations |-> list, at |-> next, returned |-> "true"]
             /\ ran' = log
        ELSE /\ run' = [pc |-> "up", migrations |-> list, at |-> next, returned |-> "none"]
             /\ ran' = Append(log, [name |-> list[next][1], file |-> list[next][2],
                                    up |-> "running", marked |-> FALSE,
                                    wasExecuted |-> IsExecuted(list[next][1], rows)])

\* Migration.runAll(folder), up to the first up() of the loop: the setup
\* migration is run and marked, the folders are scanned and the list is sorted
RunAllStart(setupOk) ==
    /\ run.pc \in {"idle", "done"}
    /\ nruns < MaxRuns
    /\ nruns' = nruns + 1
    /\ IF ~setupOk
       THEN /\ run' = [pc |-> "done", migrations |-> << >>, at |-> 0, returned |-> "throws"]
            /\ ran' = << >>
            /\ UNCHANGED executed
       ELSE /\ executed' = MarkAsExecuted(SetupName, executed)
            /\ Continue(SortBy(Scan(Folders, disk, executed')), 1, << >>, executed')
    /\ UNCHANGED << disk, notMigrationVars >>

\* `await migration.up()` answers
UpSettles(ok) ==
    /\ run.pc = "up"
    /\ IF ok
       THEN /\ run' = [run EXCEPT !.pc = "mark"]
            /\ ran' = [ran EXCEPT ![Len(ran)].up = "completed"]
       ELSE /\ run' = [run EXCEPT !.pc = "done", !.returned = "false"]
            /\ ran' = [ran EXCEPT ![Len(ran)].up = "failed"]
    /\ UNCHANGED << disk, executed, nruns, notMigrationVars >>

\* `await MigrationModel.markAsExecuted(name)` answers: the row is there and
\* the loop goes on, or storage failed and runAll returns false
MarkSettles(ok) ==
    /\ run.pc = "mark"
    /\ IF ok
       THEN /\ executed' = MarkAsExecuted(run.migrations[run.at][1], executed)
            /\ Continue(run.migrations, run.at + 1, [ran EXCEPT ![Len(ran)].marked = TRUE],
                     executed')
       ELSE /\ run' = [run EXCEPT !.pc = "done", !.returned = "false"]
            /\ UNCHANGED << executed, ran >>
    /\ UNCHANGED << disk, nruns, notMigrationVars >>

\* Migration.markAsExecuted(file), called by application code between runs
MarkAsExecutedCall(file) ==
    /\ run.pc \in {"idle", "done"}
    /\ Len(executed) < Cardinality(FileNames)
    /\ executed' = MarkAsExecuted(file, executed)
    /\ UNCHANGED << disk, run, ran, nruns, notMigrationVars >>

\* a migration file is added to one of the folders, between runs
WriteFile(p, name) ==
    /\ run.pc \in {"idle", "done"}
    /\ name \notin disk[p]
    /\ FileCount(disk) < MaxFiles
    /\ disk' = [disk EXCEPT ![p] = @ \cup {name}]
    /\ UNCHANGED << executed, run, ran, nruns, notMigrationVars >>

NextMigration ==
    \/ \E i \in DOMAIN Folders : \E name \in FileNames : WriteFile(Folders[i], name)
    \/ \E setupOk \in BOOLEAN : RunAllStart(setupOk)
    \/ \E ok \in BOOLEAN : UpSettles(ok)
    \/ \E ok \in BOOLEAN : MarkSettles(ok)
    \/ \E file \in FileNames : MarkAsExecutedCall(file)

SpecMigration == InitQuery /\ [][NextMigration]_vars

\* ---- C39 --------------------------------------------------------------------
\* the entry whose up() was called last
LastRan == ran[Len(ran)]

\* the calls of up() so far were made in ascending order of the file names
Ascending == \A i, j \in DOMAIN ran : i < j => ~StringLess(ran[j].name, ran[i].name)

\* a migration is marked by the run only when its up() has completed, and the
\* run goes to the next one only when the one before is marked
MarkedAfterUp ==
    /\ \A i \in DOMAIN ran : ran[i].marked => ran[i].up = "completed"
    /\ \A i \in DOMAIN ran : i < Len(ran) => ran[i].marked /\ IsExecuted(ran[i].name, executed)

\* runAll returned true: up() of every entry of the list whose file gives a
\* migration was called and has completed, and the entry is marked
AllDone ==
    run.returned = "true" =>
        /\ \A k \in DOMAIN run.migrations :
              GetMigration(run.migrations[k][2]) =>
                 \E i \in DOMAIN ran : run.migrations[k] = << ran[i].name, ran[i].file >>
        /\ \A i \in DOMAIN ran : ran[i].up = "completed" /\ ran[i].marked

\* runAll returned false: the migration it called last has failed (its up(), or
\* its marking), the run did not mark it, and the run has ended there
StoppedAtFailure ==
    /\ run.returned = "false" =>
          /\ run.pc = "done" /\ ran # << >>
          /\ ~LastRan.marked
          /\ LastRan.up \in {"failed", "completed"}
    /\ (run.pc = "done" /\ \E i \in DOMAIN ran : ran[i].up = "failed") =>
          /\ run.returned = "false"
          /\ LastRan.up = "failed"

\* no file has two rows in the migrations table
OneRecord == \A i, j \in DOMAIN executed : executed[i] = executed[j] => i = j

\* C39 (as stated): runAll calls up() of the pending migrations in ascending
\* order of their file names, marks one only after its up() has completed, never
\* calls up() of a migration, other than the setup migration, that is marked as
\* executed when up() is called, and at the first failure returns false with
\* that migration unmarked (not marked before, not marked by the run) and none
\* of the later ones run; markAsExecuted adds no second row for a file.
C39_RunAll ==
    /\ Ascending
    /\ MarkedAfterUp
    /\ AllDone
    /\ StoppedAtFailure
    /\ OneRecord
    /\ \A i \in DOMAIN ran : ~ran[i].wasExecuted

\* C39 (what holds): the same, with "marked as executed" taken at the time of
\* the run's scan of the folders: the list of the run holds no file that was
\* marked when the list was made, up() is called for the entries of the list
\* only, and a migration that failed was not marked by this run.
C39_RunAllAsScanned ==
    /\ [](Ascending /\ MarkedAfterUp /\ AllDone /\ StoppedAtFailure /\ OneRecord)
    /\ [](\A i \in DOMAIN ran :
            \E k \in DOMAIN run.migrations :
               run.migrations[k] = << ran[i].name, ran[i].file >>)
    /\ [][run'.migrations # run.migrations =>
            \A k \in DOMAIN run'.migrations :
               ~IsExecuted(run'.migrations[k][1], executed')]_vars
    /\ [][\A file \in FileNames \cup {SetupName} :
            IsExecuted(file, executed) => CountOf(CleanFileName(file), executed') = 1]_vars

\* two files were run in order and marked, and runAll returned true; the next
\* run found nothing to do
C39_Witness ==
    /\ nruns = 2
    /\ run.returned = "true"
    /\ ran = << >>
    /\ Len(executed) = 3

\* the second of two migrations failed: the first is marked, the second is not
C39_FailureWitness ==
    /\ run.returned = "false"
    /\ Len(ran) = 2
    /\ ran[1].marked /\ ran[2].up = "failed"
    /\ ~ran[2].wasExecuted

====
